---- MODULE Spec2Model ----
(***************************************************************************)
(* A model of goosh, a push notification gateway: the Request iterator     *)
(* (goosh.go), the worker pool (worker/worker.go) and the per-provider      *)
(* dispatch engine Process (services/apns2/apns2.go, the FCM service).      *)
(*                                                                         *)
(* A Go pointer that may be nil is a sequence of length 0 (nil) or 1.      *)
(* A Go channel is a sequence (its buffer) and a flag (closed).            *)
(* A goroutine is a program counter, or a member of a set of pending       *)
(* goroutines when any number of them may exist.                           *)
(***************************************************************************)
EXTENDS Integers, Sequences, FiniteSets, TLC

(* ------------------------------ bounds --------------------------------- *)
MaxDevices == 2
MaxPasses == 2
MaxOverrun == 2

Tokens == {"t1", "t2"}
Payloads == {"p1", "p2"}

(* ----------------------------- helpers --------------------------------- *)
SeqsUpTo(S, len) == UNION {[1..k -> S] : k \in 0..len}

RECURSIVE Orders(_)
Orders(S) ==
  IF S = {} THEN {<<>>}
  ELSE UNION {{<<x>> \o o : o \in Orders(S \ {x})} : x \in S}

CountIn(seq, m) == Cardinality({i \in DOMAIN seq : seq[i] = m})

Range(seq) == {seq[i] : i \in DOMAIN seq}

IsPrefix(p, q) == Len(p) <= Len(q) /\ \A i \in DOMAIN p : p[i] = q[i]

(* ======================================================================= *)
(*                      goosh.go : Request and its iterator                *)
(* ======================================================================= *)

EmptyMessage == [Token |-> "", Payload |-> ""]

Messages == [Token : Tokens, Payload : Payloads]

NewRequest(pushID, customID, multiplexed, batched, apns, fcm) ==
  [PushID |-> pushID, CustomID |-> customID,
   Multiplexed |-> multiplexed, Batched |-> batched,
   APNSAuth |-> apns, FCMAuth |-> fcm,
   iterator |-> 0, batchedKeys |-> <<>>, initialized |-> FALSE,
   total |-> 0, multiLen |-> 0]

MultiplexedValues ==
  {<<>>} \cup {<<[Devices |-> d, Payload |-> p]>> :
                 d \in SeqsUpTo(Tokens, MaxDevices), p \in Payloads}

BatchedValues ==
  {<<>>} \cup {<<f>> : f \in UNION {[S -> Payloads] : S \in SUBSET Tokens}}

Devices(r) == IF r.Multiplexed = <<>> THEN <<>> ELSE r.Multiplexed[1].Devices

BatchedMap(r) == IF r.Batched = <<>> THEN <<>> ELSE r.Batched[1]

(* The orders in which `for k, _ := range *r.Batched` may visit the keys. *)
KeyOrders(r) == Orders(DOMAIN BatchedMap(r))

Reset(r) == [r EXCEPT !.iterator = -1]

initializeNoGuard(r, keys) ==
  LET r1 == Reset(r)
      r2 == [r1 EXCEPT !.initialized = TRUE,
                       !.batchedKeys = IF r.Batched # <<>> THEN keys ELSE <<>>]
      r3 == IF r2.Multiplexed # <<>>
            THEN [r2 EXCEPT !.total = @ + Len(r2.Multiplexed[1].Devices),
                            !.multiLen = Len(r2.Multiplexed[1].Devices)]
            ELSE r2
  IN [r3 EXCEPT !.total = @ + Len(r3.batchedKeys)]

initialize(r, keys) ==
  IF ~r.initialized
  THEN LET r1 == Reset(r)
           r2 == [r1 EXCEPT !.initialized = TRUE,
                            !.batchedKeys = IF r.Batched # <<>> THEN keys ELSE <<>>]
           r3 == IF r2.Multiplexed # <<>>
                 THEN [r2 EXCEPT !.total = @ + Len(r2.Multiplexed[1].Devices),
                                 !.multiLen = Len(r2.Multiplexed[1].Devices)]
                 ELSE r2
       IN [r3 EXCEPT !.total = @ + Len(r3.batchedKeys)]
  ELSE r

NextOffByOne(r, keys) ==
  LET r1 == initialize(r, keys)
      r2 == [r1 EXCEPT !.iterator = @ + 1]
  IN [req |-> r2, ok |-> ~(r2.iterator > r2.total)]

(* Next has a pointer receiver: it returns the updated Request and the bool. *)
Next(r, keys) ==
  LET r1 == initialize(r, keys)
      r2 == [r1 EXCEPT !.iterator = @ + 1]
  IN [req |-> r2, ok |-> ~(r2.iterator >= r2.total)]

(* Value panics on a nil Multiplexed or on an index out of range. *)
ValuePanics(r) ==
  /\ ~(r.iterator >= r.total)
  /\ IF r.iterator < r.multiLen
     THEN \/ r.Multiplexed = <<>>
          \/ r.iterator < 0
          \/ r.iterator >= Len(Devices(r))
     ELSE \/ r.iterator - r.multiLen < 0
          \/ r.iterator - r.multiLen >= Len(r.batchedKeys)
          \/ r.Batched = <<>>

ValueLastDevice(r) ==
  IF r.iterator >= r.total THEN EmptyMessage
  ELSE IF r.iterator < r.multiLen
       THEN [Token |-> r.Multiplexed[1].Devices[r.multiLen],
             Payload |-> r.Multiplexed[1].Payload]
       ELSE LET offi == r.iterator - r.multiLen
            IN [Token |-> r.batchedKeys[offi + 1],
                Payload |-> r.Batched[1][r.batchedKeys[offi + 1]]]
Value(r) ==
  IF r.iterator >= r.total THEN EmptyMessage
  ELSE IF r.iterator < r.multiLen
       THEN [Token |-> r.Multiplexed[1].Devices[r.iterator + 1],
             Payload |-> r.Multiplexed[1].Payload]
       ELSE LET offi == r.iterator - r.multiLen
            IN [Token |-> r.batchedKeys[offi + 1],
                Payload |-> r.Batched[1][r.batchedKeys[offi + 1]]]

(* Count has a value receiver: initialize works on a copy, r is untouched. *)
Count(r, keys) ==
  LET c == initialize(r, keys) IN [req |-> r, ret |-> c.total]

(* What a Request holds, independently of the iteration state. *)
ExpectedTotal(r) == Len(Devices(r)) + Cardinality(DOMAIN BatchedMap(r))

ExpectedCount(r, m) ==
  Cardinality({i \in DOMAIN Devices(r) :
                 Devices(r)[i] = m.Token /\ r.Multiplexed[1].Payload = m.Payload})
  + (IF m.Token \in DOMAIN BatchedMap(r) /\ BatchedMap(r)[m.Token] = m.Payload
     THEN 1 ELSE 0)

(* ----------------------- iterator specification ------------------------ *)
VARIABLES
  req,        \* the Request under iteration
  emitted,    \* Messages Value() gave after each true Next() since the last Reset
  steps,      \* Next() calls since the last Reset
  lastNext,   \* "none", "true" or "false": what the last Next() returned
  passes,     \* the completed traversals, oldest first
  counts,     \* every value Count() has returned
  countedFresh, \* TRUE once Count() was called on an uninitialized Request
  countedMid, \* TRUE once Count() was called in the middle of a traversal
  countMoved, \* TRUE once a Count() call changed the Request
  lastValue,  \* what the last stand-alone Value() returned
  lastValueAt, \* the cursor and the total at that call
  itPanic     \* TRUE once Value() panicked

iterVars == <<req, emitted, steps, lastNext, passes, counts, countedFresh,
              countedMid, countMoved,
              lastValue, lastValueAt, itPanic>>

IterRequests ==
  {NewRequest("p", "c", m, b, <<>>, <<>>) :
     m \in MultiplexedValues, b \in BatchedValues}

InitIter ==
  /\ req \in IterRequests
  /\ emitted = <<>>
  /\ steps = 0
  /\ lastNext = "none"
  /\ passes = <<>>
  /\ counts = {}
  /\ countedFresh = FALSE
  /\ countedMid = FALSE
  /\ countMoved = FALSE
  /\ lastValue = EmptyMessage
  /\ lastValueAt = <<>>
  /\ itPanic = FALSE

(* The iterator specification's variables at rest, for the other specifications. *)
InitIterIdle ==
  /\ req = NewRequest("", "", <<>>, <<>>, <<>>, <<>>)
  /\ emitted = <<>>
  /\ steps = 0
  /\ lastNext = "none"
  /\ passes = <<>>
  /\ counts = {}
  /\ countedFresh = FALSE
  /\ countedMid = FALSE
  /\ countMoved = FALSE
  /\ lastValue = EmptyMessage
  /\ lastValueAt = <<>>
  /\ itPanic = FALSE

(* One turn of `for r.Next() { m := r.Value() ... }`. *)
ItNext ==
  /\ ~itPanic
  /\ steps <= ExpectedTotal(req) + MaxOverrun
  /\ \E keys \in KeyOrders(req) :
       LET nx == Next(req, keys) IN
         /\ req' = nx.req
         /\ steps' = steps + 1
         /\ IF nx.ok
            THEN /\ lastNext' = "true"
                 /\ IF ValuePanics(nx.req)
                    THEN itPanic' = TRUE /\ emitted' = emitted
                    ELSE itPanic' = FALSE /\ emitted' = Append(emitted, Value(nx.req))
                 /\ passes' = passes
            ELSE /\ lastNext' = "false"
                 /\ UNCHANGED <<itPanic, emitted>>
                 /\ passes' = IF lastNext # "false" /\ Len(passes) < MaxPasses
                              THEN Append(passes, emitted) ELSE passes
  /\ UNCHANGED <<counts, countedFresh, countedMid, countMoved, lastValue,
                 lastValueAt>>

ItCount ==
  /\ ~itPanic
  /\ \E keys \in KeyOrders(req) :
       LET c == Count(req, keys) IN
         /\ req' = c.req
         /\ counts' = counts \cup {c.ret}
         /\ countedFresh' = (countedFresh \/ ~req.initialized)
         /\ countedMid' = (countedMid \/ (req.initialized /\ req.iterator >= 0
                                            /\ req.iterator < req.total))
         /\ countMoved' = (countMoved \/ c.req # req)
  /\ UNCHANGED <<emitted, steps, lastNext, passes, lastValue, lastValueAt, itPanic>>

ItReset ==
  /\ ~itPanic
  /\ Len(passes) < MaxPasses
  /\ req' = Reset(req)
  /\ emitted' = <<>>
  /\ steps' = 0
  /\ lastNext' = "none"
  /\ UNCHANGED <<passes, counts, countedFresh, countedMid, countMoved, lastValue,
                 lastValueAt, itPanic>>

ItValue ==
  /\ ~itPanic
  /\ IF ValuePanics(req)
     THEN itPanic' = TRUE /\ UNCHANGED <<lastValue, lastValueAt>>
     ELSE /\ itPanic' = FALSE
          /\ lastValue' = Value(req)
          /\ lastValueAt' = <<req.iterator, req.total>>
  /\ UNCHANGED <<req, emitted, steps, lastNext, passes, counts, countedFresh,
                 countedMid, countMoved>>

NextIter == ItNext \/ ItCount \/ ItReset \/ ItValue

(* ======================================================================= *)
(*                    worker/worker.go : the worker pool                   *)
(* ======================================================================= *)

MaxPool == 2
(* pool size plus number of items handed to Enqueue *)
MaxLoad == 4
MaxStops == 2

(* make(chan WorkRequest, n*2) *)
QueueFactor == 2

NoWork == [kind |-> "none", id |-> <<"", 0>>, msg |-> EmptyMessage]
(* the zero value a receive from a closed channel yields *)
NilWork == [kind |-> "nil", id |-> <<"", 0>>, msg |-> EmptyMessage]
Task(k) == [kind |-> "task", id |-> <<"task", k>>, msg |-> EmptyMessage]
Tasks == {Task(k) : k \in 1..(MaxLoad - 1)}
(* What Work() of an opaque item returns: some items succeed, some fail. *)
TaskResult(item) == item.id[2] % 2 = 1

VARIABLES
  n,                 \* the argument of NewWorkerGroup
  closed,            \* wg.closed
  quit,              \* TRUE when the channel wg.quit is closed
  WorkQueue,         \* buffer of wg.WorkQueue
  workQueueClosed,
  WorkerQueue,       \* buffer of wg.WorkerQueue: worker ids standing for their Work channel
  workerQueueClosed,
  wait,              \* counter of the sync.WaitGroup wg.wait
  wpc,               \* per worker: "publish", "select", "working", "done"
  wwork,             \* per worker: the item received in `work`
  wQuit,             \* per worker: TRUE when w.Quit is closed
  quitters,          \* workers whose Worker.Stop goroutine has not run yet
  cpc,               \* the goroutine of WorkerGroup.Start: "none", "select", "done"
  handoffs,          \* the goroutines spawned at worker.go:83
  senders,           \* the goroutines spawned by Enqueue, by the item they send
  stopPc,            \* the caller of WorkerGroup.Stop
  panicked,          \* "" or the run-time panic that ended the process
  stopCalls,         \* history: calls of Stop
  enqLog,            \* history: one record per Enqueue call
  accepted,          \* history: items for which Enqueue returned true, in call order
  entered,           \* history: items in the order they entered WorkQueue
  taken,             \* history: items in the order the coordinator received them
  started,           \* history: <<item, k>> when a worker received item for the k-th time
  running,           \* history: <<worker, item>> pairs inside work.Work()
  finished,          \* history: [item, ret] for every Work() that returned
  atStop             \* history: what the first Stop call found accepted and running

poolState == <<n, closed, quit, WorkQueue, workQueueClosed, WorkerQueue,
               workerQueueClosed, wait, wpc, wwork, wQuit, quitters, cpc,
               handoffs, senders, stopPc, panicked>>
poolHist == <<stopCalls, enqLog, accepted, entered, taken, started, running,
              finished, atStop>>
poolVars == <<poolState, poolHist>>

Workers == 1..n

(* NewWorkerGroup(n): n workers started, coordinator not yet started. *)
NewWorkerGroup(size) ==
  /\ n = size
  /\ closed = FALSE
  /\ quit = FALSE
  /\ WorkQueue = <<>>
  /\ workQueueClosed = FALSE
  /\ WorkerQueue = <<>>
  /\ workerQueueClosed = FALSE
  /\ wait = size
  /\ wpc = [w \in 1..size |-> "publish"]
  /\ wwork = [w \in 1..size |-> NoWork]
  /\ wQuit = [w \in 1..size |-> FALSE]
  /\ quitters = {}
  /\ cpc = "none"
  /\ handoffs = {}
  /\ senders = {}
  /\ stopPc = "idle"
  /\ panicked = ""
  /\ stopCalls = 0
  /\ enqLog = {}
  /\ accepted = <<>>
  /\ entered = <<>>
  /\ taken = <<>>
  /\ started = {}
  /\ running = {}
  /\ finished = {}
  /\ atStop = [called |-> FALSE, accepted |-> {}, running |-> {}]

Alive == panicked = ""

(* A receive from a buffered channel takes the oldest element. *)
ChanRecvLast(q) == [item |-> q[Len(q)], rest |-> SubSeq(q, 1, Len(q) - 1)]
ChanRecvPeek(q) == [item |-> Head(q), rest |-> q]
ChanRecv(q) == [item |-> Head(q), rest |-> Tail(q)]

(* ---- Worker.Start: the worker goroutine ---- *)

(* w.WorkerQueue <- w.Work *)
WorkerPublish(w) ==
  /\ Alive
  /\ wpc[w] = "publish"
  /\ IF workerQueueClosed
     THEN /\ panicked' = "send on closed channel"
          /\ UNCHANGED <<WorkerQueue, wpc>>
     ELSE /\ Len(WorkerQueue) < n
          /\ WorkerQueue' = Append(WorkerQueue, w)
          /\ wpc' = [wpc EXCEPT ![w] = "select"]
          /\ UNCHANGED panicked
  /\ UNCHANGED <<n, closed, quit, WorkQueue, workQueueClosed, workerQueueClosed,
                 wait, wwork, wQuit, quitters, cpc, handoffs, senders, stopPc>>
  /\ UNCHANGED poolHist

(* The worker is blocked in its select, able to receive on w.Work. *)
WorkerReady(w) == wpc[w] = "select"

WorkerRunsAsync(w) == "publish"
(* case work := <-w.Work: work.Work() runs inside the worker's loop, which *)
(* goes on only when Work() has returned. *)
WorkerRuns(w) == "working"

(* case <-w.Quit: return, then the deferred w.wait.Done() *)
WorkerQuit(w) ==
  /\ Alive
  /\ wpc[w] = "select"
  /\ wQuit[w]
  /\ wpc' = [wpc EXCEPT ![w] = "done"]
  /\ wait' = wait - 1
  /\ UNCHANGED <<n, closed, quit, WorkQueue, workQueueClosed, WorkerQueue,
                 workerQueueClosed, wwork, wQuit, quitters, cpc, handoffs,
                 senders, stopPc, panicked>>
  /\ UNCHANGED poolHist

WorkerOneShot(w) == "done"
(* for { ... }: after work.Work() the worker publishes its channel again *)
WorkerLoops(w) == "publish"

(* work.Work() of an opaque item returns; its result is dropped. *)
WorkerFinishTask(w) ==
  /\ Alive
  /\ wpc[w] = "working"
  /\ wwork[w].kind = "task"
  /\ finished' = finished \cup {[item |-> wwork[w], ret |-> TaskResult(wwork[w])]}
  /\ running' = running \ {<<w, wwork[w]>>}
  /\ wpc' = [wpc EXCEPT ![w] = WorkerLoops(w)]
  /\ UNCHANGED <<n, closed, quit, WorkQueue, workQueueClosed, WorkerQueue,
                 workerQueueClosed, wait, wwork, wQuit, quitters, cpc, handoffs,
                 senders, stopPc, panicked>>
  /\ UNCHANGED <<stopCalls, enqLog, accepted, entered, taken, started, atStop>>

(* Worker.Stop: go func() { close(w.Quit) }() *)
QuitterRun(w) ==
  /\ Alive
  /\ w \in quitters
  /\ quitters' = quitters \ {w}
  /\ IF wQuit[w]
     THEN panicked' = "close of closed channel" /\ UNCHANGED wQuit
     ELSE wQuit' = [wQuit EXCEPT ![w] = TRUE] /\ UNCHANGED panicked
  /\ UNCHANGED <<n, closed, quit, WorkQueue, workQueueClosed, WorkerQueue,
                 workerQueueClosed, wait, wpc, wwork, cpc, handoffs, senders,
                 stopPc>>
  /\ UNCHANGED poolHist

(* ---- WorkerGroup.Start: the coordinator goroutine ---- *)

WGStart ==
  /\ Alive
  /\ cpc = "none"
  /\ cpc' = "select"
  /\ UNCHANGED <<n, closed, quit, WorkQueue, workQueueClosed, WorkerQueue,
                 workerQueueClosed, wait, wpc, wwork, wQuit, quitters, handoffs,
                 senders, stopPc, panicked>>
  /\ UNCHANGED poolHist

(* case work := <-wg.WorkQueue: go func() {...}() *)
CoordRecv ==
  /\ Alive
  /\ cpc = "select"
  /\ IF Len(WorkQueue) > 0
     THEN LET r == ChanRecv(WorkQueue) IN
            /\ WorkQueue' = r.rest
            /\ handoffs' = handoffs \cup {[work |-> r.item, pc |-> "recv", worker |-> 0]}
            /\ taken' = Append(taken, r.item)
     ELSE /\ workQueueClosed
          /\ handoffs' = handoffs \cup {[work |-> NilWork, pc |-> "recv", worker |-> 0]}
          /\ UNCHANGED <<WorkQueue, taken>>
  /\ UNCHANGED <<n, closed, quit, workQueueClosed, WorkerQueue, workerQueueClosed,
                 wait, wpc, wwork, wQuit, quitters, cpc, senders, stopPc, panicked>>
  /\ UNCHANGED <<stopCalls, enqLog, accepted, entered, started, running, finished,
                 atStop>>

(* case <-wg.quit: return *)
CoordQuit ==
  /\ Alive
  /\ cpc = "select"
  /\ quit
  /\ cpc' = "done"
  /\ UNCHANGED <<n, closed, quit, WorkQueue, workQueueClosed, WorkerQueue,
                 workerQueueClosed, wait, wpc, wwork, wQuit, quitters, handoffs,
                 senders, stopPc, panicked>>
  /\ UNCHANGED poolHist

(* worker := <-wg.WorkerQueue; a closed and empty queue yields the nil channel *)
HandoffRecv(h) ==
  /\ Alive
  /\ h \in handoffs
  /\ h.pc = "recv"
  /\ IF Len(WorkerQueue) > 0
     THEN LET r == ChanRecv(WorkerQueue) IN
            /\ WorkerQueue' = r.rest
            /\ handoffs' = (handoffs \ {h}) \cup {[h EXCEPT !.pc = "send", !.worker = r.item]}
     ELSE /\ workerQueueClosed
          /\ handoffs' = (handoffs \ {h}) \cup {[h EXCEPT !.pc = "nil"]}
          /\ UNCHANGED WorkerQueue
  /\ UNCHANGED <<n, closed, quit, WorkQueue, workQueueClosed, workerQueueClosed,
                 wait, wpc, wwork, wQuit, quitters, cpc, senders, stopPc, panicked>>
  /\ UNCHANGED poolHist

(* worker <- work meets case work := <-w.Work: work.Work() begins *)
HandoffSend(h) ==
  /\ Alive
  /\ h \in handoffs
  /\ h.pc = "send"
  /\ WorkerReady(h.worker)
  /\ handoffs' = handoffs \ {h}
  /\ IF h.work.kind = "nil"
     THEN /\ panicked' = "nil pointer dereference"
          /\ UNCHANGED <<wpc, wwork, started, running>>
     ELSE /\ wpc' = [wpc EXCEPT ![h.worker] = WorkerRuns(h.worker)]
          /\ wwork' = [wwork EXCEPT ![h.worker] = h.work]
          /\ started' = started \cup {<<h.work, 1 + Cardinality({p \in started : p[1] = h.work})>>}
          /\ running' = running \cup {<<h.worker, h.work>>}
          /\ UNCHANGED panicked
  /\ UNCHANGED <<n, closed, quit, WorkQueue, workQueueClosed, WorkerQueue,
                 workerQueueClosed, wait, wQuit, quitters, cpc, senders, stopPc>>
  /\ UNCHANGED <<stopCalls, enqLog, accepted, entered, taken, finished, atStop>>

(* ---- WorkerGroup.Enqueue ---- *)

(* Enqueue reads wg.closed without synchronisation: while Stop is running in *)
(* another goroutine the read may still give the value from before the write. *)
ClosedReads == IF stopPc \in {"idle", "returned"} THEN {closed} ELSE {closed, FALSE}

(* "open" until Stop writes wg.closed, "closing" until Stop returns, then "stopped" *)
Phase == IF ~closed THEN "open" ELSE IF stopPc = "returned" THEN "stopped" ELSE "closing"

EnqueueAcceptsAlways(seen) == TRUE
(* if wg.closed { return false } *)
EnqueueAccepts(seen) == ~seen

(* The body of WorkerGroup.Enqueue, for any work item *)
EnqueueCall(item) ==
  /\ Alive
  /\ \A e \in enqLog : e.item # item
  /\ \E seen \in ClosedReads :
       LET ret == EnqueueAccepts(seen) IN
         /\ enqLog' = enqLog \cup
              {[item |-> item, ret |-> ret, phase |-> Phase,
                full |-> (Len(WorkQueue) = QueueFactor * n)]}
         /\ senders' = IF ret THEN senders \cup {item} ELSE senders
         /\ accepted' = IF ret THEN Append(accepted, item) ELSE accepted
  /\ UNCHANGED <<n, closed, quit, WorkQueue, workQueueClosed, WorkerQueue,
                 workerQueueClosed, wait, wpc, wwork, wQuit, quitters, cpc,
                 handoffs, stopPc, panicked>>
  /\ UNCHANGED <<stopCalls, entered, taken, started, running, finished, atStop>>

(* Enqueue called with the opaque items, one after the other *)
Enqueue(item) ==
  /\ item.id[2] + n <= MaxLoad
  /\ \A k \in 1..(item.id[2] - 1) : \E e \in enqLog : e.item = Task(k)
  /\ EnqueueCall(item)

(* go func() { wg.WorkQueue <- w }() *)
SenderSend(item) ==
  /\ Alive
  /\ item \in senders
  /\ IF workQueueClosed
     THEN /\ panicked' = "send on closed channel"
          /\ UNCHANGED <<WorkQueue, senders, entered>>
     ELSE /\ Len(WorkQueue) < QueueFactor * n
          /\ WorkQueue' = Append(WorkQueue, item)
          /\ senders' = senders \ {item}
          /\ entered' = Append(entered, item)
          /\ UNCHANGED panicked
  /\ UNCHANGED <<n, closed, quit, workQueueClosed, WorkerQueue, workerQueueClosed,
                 wait, wpc, wwork, wQuit, quitters, cpc, handoffs, stopPc>>
  /\ UNCHANGED <<stopCalls, enqLog, accepted, taken, started, running, finished,
                 atStop>>

(* ---- WorkerGroup.Stop, called from one goroutine, one call after another ---- *)

(* if wg.closed { return }; close(wg.quit) *)
StopCall ==
  /\ Alive
  /\ stopPc \in {"idle", "returned"}
  /\ stopCalls < MaxStops
  /\ stopCalls' = stopCalls + 1
  /\ atStop' = IF atStop.called THEN atStop
               ELSE [called |-> TRUE,
                     accepted |-> {accepted[i] : i \in DOMAIN accepted},
                     running |-> {p[2] : p \in running}]
  /\ IF closed
     THEN /\ stopPc' = "returned"
          /\ UNCHANGED <<quit, panicked>>
     ELSE IF quit
          THEN /\ panicked' = "close of closed channel"
               /\ UNCHANGED <<quit, stopPc>>
          ELSE /\ quit' = TRUE
               /\ stopPc' = "setClosed"
               /\ UNCHANGED panicked
  /\ UNCHANGED <<n, closed, WorkQueue, workQueueClosed, WorkerQueue,
                 workerQueueClosed, wait, wpc, wwork, wQuit, quitters, cpc,
                 handoffs, senders>>
  /\ UNCHANGED <<enqLog, accepted, entered, taken, started, running, finished>>

(* wg.closed = true; for _, w := range wg.workers { w.Stop() } *)
StopSetClosed ==
  /\ Alive
  /\ stopPc = "setClosed"
  /\ closed' = TRUE
  /\ quitters' = quitters \cup Workers
  /\ stopPc' = "wait"
  /\ UNCHANGED <<n, quit, WorkQueue, workQueueClosed, WorkerQueue,
                 workerQueueClosed, wait, wpc, wwork, wQuit, cpc, handoffs,
                 senders, panicked>>
  /\ UNCHANGED poolHist

WaitNoWait == TRUE
(* wg.wait.Wait() returns when the counter is zero *)
WaitReturns == wait = 0

StopWait ==
  /\ Alive
  /\ stopPc = "wait"
  /\ WaitReturns
  /\ stopPc' = "closeWork"
  /\ UNCHANGED <<n, closed, quit, WorkQueue, workQueueClosed, WorkerQueue,
                 workerQueueClosed, wait, wpc, wwork, wQuit, quitters, cpc,
                 handoffs, senders, panicked>>
  /\ UNCHANGED poolHist

(* close(wg.WorkQueue) *)
StopCloseWorkQueue ==
  /\ Alive
  /\ stopPc = "closeWork"
  /\ IF workQueueClosed
     THEN panicked' = "close of closed channel" /\ UNCHANGED <<workQueueClosed, stopPc>>
     ELSE workQueueClosed' = TRUE /\ stopPc' = "closeWorker" /\ UNCHANGED panicked
  /\ UNCHANGED <<n, closed, quit, WorkQueue, WorkerQueue, workerQueueClosed, wait,
                 wpc, wwork, wQuit, quitters, cpc, handoffs, senders>>
  /\ UNCHANGED poolHist

(* close(wg.WorkerQueue); return *)
StopCloseWorkerQueue ==
  /\ Alive
  /\ stopPc = "closeWorker"
  /\ IF workerQueueClosed
     THEN panicked' = "close of closed channel" /\ UNCHANGED <<workerQueueClosed, stopPc>>
     ELSE workerQueueClosed' = TRUE /\ stopPc' = "returned" /\ UNCHANGED panicked
  /\ UNCHANGED <<n, closed, quit, WorkQueue, workQueueClosed, WorkerQueue, wait,
                 wpc, wwork, wQuit, quitters, cpc, handoffs, senders>>
  /\ UNCHANGED poolHist

InitPoolIdle == NewWorkerGroup(0)

(* ======================================================================= *)
(*        services/apns2/apns2.go and the FCM service : Process            *)
(* ======================================================================= *)

(* make(chan goosh.DeviceResponse, 10) *)
ResultsCap == 10
(* const initialBackoff, const maxBackoff *)
initialBackoff == 5
maxBackoff == 300

Calls == {"c1", "c2"}
(* devices over all the requests in flight *)
MaxInFlight == 2

(* `time.Now().Add(300 * time.Second)` in the two services *)
apnsRetryDelay == 300
fcmRetryDelay == 300

(* *goosh.Error: nil, without RetryAt, or with RetryAt pointing to a time *)
NoError == <<>>
Err(code, description, shouldRetry) ==
  <<[Code |-> code, Description |-> description, ShouldRetry |-> shouldRetry,
     RetryAt |-> <<>>]>>
ErrAt(code, description, shouldRetry, retryAt) ==
  <<[Code |-> code, Description |-> description, ShouldRetry |-> shouldRetry,
     RetryAt |-> <<retryAt>>]>>

(* goosh.DeviceResponse *)
DeviceResponse(identifier, delivered, error, shouldRetry) ==
  [Identifier |-> identifier, Delivered |-> delivered, Error |-> error,
   ShouldRetry |-> shouldRetry]

(* goosh.Response, and its zero value *)
Response(failed, devices, success, failure, pushID, customID, service) ==
  [Failed |-> failed, Error |-> NoError, Devices |-> devices, Success |-> success,
   Failure |-> failure, PushID |-> pushID, CustomID |-> customID,
   Service |-> service]
ZeroResponse == Response(FALSE, <<>>, 0, 0, "", "", "")

(* Request.Platform *)
Platform(r) ==
  IF r.FCMAuth # <<>> /\ r.APNSAuth = <<>> THEN "fcm"
  ELSE IF r.FCMAuth = <<>> /\ r.APNSAuth # <<>> THEN "apns"
  ELSE ""

(* ---- the backends ---- *)
(* What the provider does with one POST: the transport fails, or a response *)
(* with a status and a body arrives.                                       *)
Transport == [kind |-> "transport", status |-> 0, body |-> "", retryAfter |-> ""]
Status(code, body) == [kind |-> "status", status |-> code, body |-> body, retryAfter |-> ""]

APNSOutcomes ==
  {Status(200, ""), Status(410, "Unregistered"), Status(503, "Shutdown"), Transport}
FCMOutcomes ==
  {Status(200, ""), Status(200, "NotRegistered"), Status(503, ""), Transport}

(* json.Unmarshal of an APNS error body into response{Reason}. Bodies are  *)
(* given by their reason; "<html>" is a body that is not JSON.              *)
APNSReason(body) ==
  IF body = "<html>" THEN [ok |-> FALSE, reason |-> ""]
  ELSE [ok |-> TRUE, reason |-> body]

APNSPushNoError(m, o, t) ==
  [dr |-> DeviceResponse(m.Token, o.kind = "status" /\ o.status = 200, NoError, FALSE),
   ok |-> o.kind = "status"]
(* client.Push of the APNS service: the DeviceResponse and whether err is   *)
(* nil. o is what the backend did on the last attempt, t is time.Now().     *)
APNSPush(m, o, t) ==
  IF o.kind = "transport"
  THEN [dr |-> DeviceResponse(m.Token, FALSE,
                  ErrAt(502, "couldn't make request to APNS", TRUE,
                        t + apnsRetryDelay), FALSE),
        ok |-> FALSE]
  ELSE IF o.status = 200
  THEN [dr |-> DeviceResponse(m.Token, TRUE, NoError, FALSE), ok |-> TRUE]
  ELSE IF ~APNSReason(o.body).ok
  THEN [dr |-> DeviceResponse(m.Token, FALSE,
                  Err(o.status, "couldn't parse APNS response", FALSE), FALSE),
        ok |-> FALSE]
  ELSE IF o.status >= 500
  THEN [dr |-> DeviceResponse(m.Token, FALSE,
                  ErrAt(o.status, APNSReason(o.body).reason, TRUE,
                        t + apnsRetryDelay), FALSE),
        ok |-> TRUE]
  ELSE [dr |-> DeviceResponse(m.Token, FALSE,
                  Err(o.status, APNSReason(o.body).reason, FALSE), FALSE),
        ok |-> TRUE]

minInt(x, y) == IF x < y THEN x ELSE y

(* client.push of the FCM service, 5xx branch: the new currentWait. *)
FCMBackoff(cw, o) ==
  IF o.kind = "status" /\ o.status >= 500 /\ o.retryAfter # ""
  THEN IF cw = 0 THEN initialBackoff ELSE minInt(cw * 2, maxBackoff)
  ELSE cw

FCMPushIgnoresResult(m, o, t, until) ==
  IF o.kind = "status" /\ o.status = 200
  THEN [dr |-> DeviceResponse(m.Token, TRUE, NoError, FALSE), ok |-> TRUE]
  ELSE [dr |-> DeviceResponse(m.Token, FALSE,
                  ErrAt(500, "couldn't connect to FCM", TRUE, t + fcmRetryDelay),
                  TRUE),
        ok |-> FALSE]
(* client.push of the FCM service; body is results[0].error of a 200, t is *)
(* time.Now() and until the waitUntil the 5xx branch has computed.         *)
FCMPush(m, o, t, until) ==
  IF o.kind = "transport"
  THEN [dr |-> DeviceResponse(m.Token, FALSE,
                  ErrAt(500, "couldn't connect to FCM", TRUE, t + fcmRetryDelay),
                  TRUE),
        ok |-> FALSE]
  ELSE IF o.status = 200
  THEN [dr |-> DeviceResponse(m.Token, o.body = "",
                  IF o.body = "" THEN NoError ELSE Err(0, o.body, FALSE), FALSE),
        ok |-> TRUE]
  ELSE IF o.status = 401
  THEN [dr |-> DeviceResponse(m.Token, FALSE, Err(401, "wrong api key", FALSE), FALSE),
        ok |-> FALSE]
  ELSE IF o.status = 400
  THEN [dr |-> DeviceResponse(m.Token, FALSE,
                  Err(400, "invalid payload, check JSON", FALSE), FALSE),
        ok |-> FALSE]
  ELSE IF o.status >= 500
  THEN [dr |-> DeviceResponse(m.Token, FALSE,
                  ErrAt(o.status, "FCM error", TRUE, until), FALSE),
        ok |-> FALSE]
  ELSE [dr |-> DeviceResponse(m.Token, FALSE,
                  Err(o.status, "Unknown response", FALSE), FALSE),
        ok |-> FALSE]

(* ---- APNS client acquisition ---- *)
(* A certificate is a sequence of base64 groups; "C" decodes to a           *)
(* CERTIFICATE block, "K" to a PRIVATE KEY block, "X" to other text, and    *)
(* any other group is not base64.                                           *)
B64 == [C |-> "cert", K |-> "key", X |-> "text"]
B64Valid(c) == \A i \in DOMAIN c : c[i] \in DOMAIN B64
B64Decode(c) == [i \in DOMAIN c |-> B64[c[i]]]

(* cacheKey: MD5 over pem ++ password ++ "true"/"false"; the hash is kept   *)
(* as the byte string it is taken of. ok is FALSE when decoding fails.      *)
cacheKey(r) ==
  IF ~B64Valid(r.APNSAuth[1].Certificate)
  THEN [ok |-> FALSE, key |-> <<>>]
  ELSE [ok |-> TRUE,
        key |-> B64Decode(r.APNSAuth[1].Certificate)
                \o r.APNSAuth[1].CertificatePassword
                \o (IF r.APNSAuth[1].Sandbox THEN <<"true">> ELSE <<"false">>)]

(* FromPemBytes: at least one certificate and a private key *)
FromPemBytesOK(pem) == "cert" \in Range(pem) /\ "key" \in Range(pem)

(* newClient *)
newClientOK(r) ==
  /\ B64Valid(r.APNSAuth[1].Certificate)
  /\ FromPemBytesOK(B64Decode(r.APNSAuth[1].Certificate))

(* The client newClient returns: the PEM data, the host it talks to, and    *)
(* the certificate FromPemBytes made of the PEM data and the password.      *)
NoClient == <<>>
newClient(r) ==
  [pemData |-> B64Decode(r.APNSAuth[1].Certificate),
   production |-> ~r.APNSAuth[1].Sandbox,
   certificates |-> <<B64Decode(r.APNSAuth[1].Certificate),
                      r.APNSAuth[1].CertificatePassword>>]

VARIABLES
  proc,        \* per call of Process: its locals, its result and its producer
  results,     \* per call: the buffer of the channel `results`
  clients,     \* ps.clients of the APNS service: cache key -> client
  lock,        \* ps.lock of the APNS service: "" or the call that holds it
  currentWait  \* the FCM service's package variable

procVars == <<proc, results, clients, lock, currentWait>>

(* ---- the FCM service's backoff state ---- *)
(* Times are whole seconds; 0 is the zero time.Time and the clock starts   *)
(* after it.                                                               *)
MaxTime == 6
MaxPushes == 8

VARIABLES
  now,         \* time.Now()
  waitUntil,   \* the FCM service's package variable
  bo,          \* history: the pushes made directly against the FCM backend
  obs,         \* history: the last ShouldWait() or RetryAfter() and its result
  raPc         \* RetryAfter(): "idle", or "checked" after its ShouldWait()

fcmVars == <<now, waitUntil, bo, obs, raPc>>

NoObs == [op |-> "none", ret |-> 0, at |-> 0, wu |-> 0, pushes |-> 0]

InitFcmIdle ==
  /\ now = 1
  /\ waitUntil = 0
  /\ bo = [pushes |-> 0, bare |-> TRUE, lastRA |-> "", lastAt |-> 0, lastCode |-> 0,
           lastRetryAt |-> <<>>, lastWait |-> 0, lastKind |-> ""]
  /\ obs = NoObs
  /\ raPc = "idle"

(* strconv.Atoi on the header values the backend sends *)
RetryAfterValues == {"", "7", "soon"}
Atoi(h) == IF h = "7" THEN [ok |-> TRUE, val |-> 7] ELSE [ok |-> FALSE, val |-> 0]

(* client.push, 5xx branch: waitUntil = time.Now(); the result of          *)
(* waitUntil.Add(retryInt) is dropped; currentWait is added only inside    *)
(* `if retryAfter != ""`.                                                  *)
FCMWaitUntil(t, cw, wu, o) ==
  IF o.kind = "status" /\ o.status >= 500
  THEN IF o.retryAfter # "" THEN t + FCMBackoff(cw, o) ELSE t
  ELSE wu

PushItem(c, idx, m) == [kind |-> "push", id |-> <<c, idx>>, msg |-> m]

NewCall(r) ==
  [pc |-> "idle", req |-> r, svc |-> Platform(r), left |-> 0, resps |-> <<>>,
   success |-> 0, failed |-> 0, resp |-> ZeroResponse, err |-> "", prod |-> "none",
   sent |-> 0, cli |-> NoClient, built |-> FALSE]

APNSAuths ==
  {<<[Certificate |-> c, CertificatePassword |-> <<>>, Sandbox |-> TRUE]>> :
     c \in {<<"C", "K">>, <<"C">>, <<"!">>}}
FCMAuths == {<<[AuthKey |-> "k"]>>}

(* The requests handed to Process: multiplexed absent, empty or holding one *)
(* token, possibly repeated; batched absent or holding one or two keys.    *)
ProcMultiplexed ==
  {<<>>} \cup {<<[Devices |-> d, Payload |-> "p1"]>> : d \in SeqsUpTo({"t1"}, MaxDevices)}
ProcBatched ==
  {<<>>} \cup {<<[t \in S |-> "p2"]>> : S \in {{"t1"}, {"t1", "t2"}}}

ProcRequests ==
  {NewRequest("p", "c", m, b, a, <<>>) :
     m \in ProcMultiplexed, b \in ProcBatched, a \in APNSAuths}
  \cup
  {NewRequest("p", "c", m, b, <<>>, f) :
     m \in ProcMultiplexed, b \in ProcBatched, f \in FCMAuths}

InitProcIdle ==
  /\ proc = [c \in {} |-> NewCall(NewRequest("", "", <<>>, <<>>, <<>>, <<>>))]
  /\ results = [c \in {} |-> <<>>]
  /\ clients = <<>>
  /\ lock = ""
  /\ currentWait = 0

(* Process, up to the producer's start. An empty request returns at once.   *)
(* The FCM service has no client to acquire.                                *)
ProcessCall(c) ==
  /\ Alive
  /\ proc[c].pc = "idle"
  /\ \E keys \in KeyOrders(proc[c].req) :
       LET cnt == Count(proc[c].req, keys).ret IN
         IF cnt <= 0
         THEN proc' = [proc EXCEPT ![c].pc = "done"]
         ELSE IF proc[c].svc = "apns"
         THEN proc' = [proc EXCEPT ![c].pc = "getClient"]
         ELSE proc' = [proc EXCEPT ![c].pc = "consume", ![c].left = cnt,
                                   ![c].prod = "run",
                                   ![c].resp = [ZeroResponse EXCEPT
                                                  !.CustomID = proc[c].req.CustomID,
                                                  !.Service = "fcm"]]
  /\ UNCHANGED <<results, clients, lock, currentWait>>
  /\ UNCHANGED poolVars

(* getClient and what Process does with its result. A failure returns with  *)
(* ps.lock still held: both error paths of getClient return before Unlock.  *)
GetClient(c) ==
  /\ Alive
  /\ proc[c].pc = "getClient"
  /\ lock = ""
  /\ LET r == proc[c].req
         ck == cacheKey(r)
     IN IF ~ck.ok
        THEN /\ lock' = c
             /\ proc' = [proc EXCEPT ![c].pc = "done", ![c].err = "Couldn't get cacheKey"]
             /\ UNCHANGED clients
        ELSE IF ck.key \notin DOMAIN clients /\ ~newClientOK(r)
        THEN /\ lock' = c
             /\ proc' = [proc EXCEPT ![c].pc = "done",
                                     ![c].err = "Couldn't setup new client"]
             /\ UNCHANGED clients
        ELSE /\ lock' = ""
             /\ clients' = IF ck.key \in DOMAIN clients THEN clients
                            ELSE [k \in DOMAIN clients \cup {ck.key} |->
                                    IF k = ck.key THEN newClient(r) ELSE clients[k]]
             /\ \E keys \in KeyOrders(r) :
                  proc' = [proc EXCEPT ![c].pc = "consume",
                                       ![c].left = Count(r, keys).ret,
                                       ![c].prod = "run",
                                       ![c].cli = clients'[ck.key],
                                       ![c].built = ck.key \notin DOMAIN clients]
  /\ UNCHANGED <<results, currentWait>>
  /\ UNCHANGED poolVars

(* The producer: for r.Next() { ps.queue <- workRequest{msg: r.Value(), ...} } *)
ProducerEmit(c) ==
  /\ Alive
  /\ proc[c].prod = "run"
  /\ \E keys \in KeyOrders(proc[c].req) :
       LET nx == Next(proc[c].req, keys) IN
         /\ nx.ok
         /\ IF workQueueClosed
            THEN /\ panicked' = "send on closed channel"
                 /\ UNCHANGED <<WorkQueue, entered, proc>>
            ELSE /\ Len(WorkQueue) < QueueFactor * n
                 /\ WorkQueue' = Append(WorkQueue,
                                        PushItem(c, proc[c].sent + 1, Value(nx.req)))
                 /\ entered' = Append(entered,
                                      PushItem(c, proc[c].sent + 1, Value(nx.req)))
                 /\ proc' = [proc EXCEPT ![c].req = nx.req, ![c].sent = @ + 1]
                 /\ UNCHANGED panicked
  /\ UNCHANGED <<results, clients, lock, currentWait>>
  /\ UNCHANGED <<n, closed, quit, workQueueClosed, WorkerQueue, workerQueueClosed,
                 wait, wpc, wwork, wQuit, quitters, cpc, handoffs, senders, stopPc>>
  /\ UNCHANGED <<stopCalls, enqLog, accepted, taken, started, running, finished,
                 atStop>>

ProducerDone(c) ==
  /\ Alive
  /\ proc[c].prod = "run"
  /\ \E keys \in KeyOrders(proc[c].req) :
       LET nx == Next(proc[c].req, keys) IN
         /\ ~nx.ok
         /\ proc' = [proc EXCEPT ![c].req = nx.req, ![c].prod = "done"]
  /\ UNCHANGED <<results, clients, lock, currentWait>>
  /\ UNCHANGED poolVars

(* workRequest.Work: dr, err := Push(...); wr.res <- dr; return err == nil *)
PushOf(svc, m, o, t, until) ==
  IF svc = "apns" THEN APNSPush(m, o, t) ELSE FCMPush(m, o, t, until)

WorkerFinishPush(w) ==
  /\ Alive
  /\ wpc[w] = "working"
  /\ wwork[w].kind = "push"
  /\ LET c == wwork[w].id[1] IN
       /\ Len(results[c]) < ResultsCap
       /\ \E o \in (IF proc[c].svc = "apns" THEN APNSOutcomes ELSE FCMOutcomes) :
            LET p == PushOf(proc[c].svc, wwork[w].msg, o, now,
                            FCMWaitUntil(now, currentWait, waitUntil, o)) IN
              /\ results' = [results EXCEPT ![c] = Append(@, p.dr)]
              /\ finished' = finished \cup
                              {[item |-> wwork[w], ret |-> p.ok, dr |-> p.dr]}
              /\ currentWait' = IF proc[c].svc = "fcm"
                                THEN FCMBackoff(currentWait, o) ELSE currentWait
              /\ waitUntil' = IF proc[c].svc = "fcm"
                              THEN FCMWaitUntil(now, currentWait, waitUntil, o)
                              ELSE waitUntil
  /\ UNCHANGED <<now, bo, obs, raPc>>
  /\ running' = running \ {<<w, wwork[w]>>}
  /\ wpc' = [wpc EXCEPT ![w] = "publish"]
  /\ UNCHANGED <<proc, clients, lock>>
  /\ UNCHANGED <<n, closed, quit, WorkQueue, workQueueClosed, WorkerQueue,
                 workerQueueClosed, wait, wwork, wQuit, quitters, cpc, handoffs,
                 senders, stopPc, panicked>>
  /\ UNCHANGED <<stopCalls, enqLog, accepted, entered, taken, started, atStop>>

(* Response.Failed: neither service assigns it, so it keeps its zero value *)
ResponseFailedOnFailure(success, failed) == failed > 0
ResponseFailed(success, failed) == FALSE

(* success++ or failed++ *)
TallyAlwaysSuccess(dr) == [success |-> 1, failed |-> 0]
Tally(dr) == IF dr.Delivered THEN [success |-> 1, failed |-> 0]
             ELSE [success |-> 0, failed |-> 1]

(* One turn of the consumer loop `for ; left > 0; left--`, and, when left   *)
(* reaches 0, the Response that Process returns. The channel is never       *)
(* closed, so ok is always true.                                            *)
Consume(c) ==
  /\ Alive
  /\ proc[c].pc = "consume"
  /\ proc[c].left > 0
  /\ Len(results[c]) > 0
  /\ LET rcv == ChanRecv(results[c])
         dr == rcv.item
         resps == Append(proc[c].resps, dr)
         success == proc[c].success + Tally(dr).success
         failed == proc[c].failed + Tally(dr).failed
         r == proc[c].req
     IN /\ results' = [results EXCEPT ![c] = rcv.rest]
        /\ IF proc[c].left - 1 > 0
           THEN proc' = [proc EXCEPT ![c].left = @ - 1, ![c].resps = resps,
                                     ![c].success = success, ![c].failed = failed]
           ELSE proc' = [proc EXCEPT
                  ![c].left = 0, ![c].resps = resps,
                  ![c].success = success, ![c].failed = failed,
                  ![c].pc = "done",
                  ![c].resp = IF proc[c].svc = "apns"
                              THEN Response(ResponseFailed(success, failed), resps,
                                            success, failed, r.PushID, "", "")
                              ELSE Response(ResponseFailed(success, failed), resps,
                                            success, failed, r.PushID,
                                            r.CustomID, "fcm")]
  /\ UNCHANGED <<clients, lock, currentWait>>
  /\ UNCHANGED poolVars


(* ======================================================================= *)
(*          client.Push (APNS) and client.push (FCM), step by step         *)
(* ======================================================================= *)

(* `retries := 5` and `time.Sleep(500 * time.Millisecond)` *)
transportRetries == 5
retrySleepMillis == 500
(* pushes made one after the other *)
MaxPushCalls == 2

(* What c.http.Do gives to the APNS client and cli.http.Do to the FCM one *)
APNSAnswers ==
  {Transport, Status(200, ""), Status(410, "Unregistered"), Status(503, "Shutdown"),
   Status(503, "<html>")}
FCMAnswers ==
  {Transport, Status(200, ""), Status(200, "NotRegistered"), Status(401, ""),
   Status(400, ""), Status(503, ""), Status(404, "")}

VARIABLES
  push,      \* the Work() in progress: its service, message, position and locals
  pushLog,   \* history: the HTTP attempts and sleeps of that call, in order
  pushOut    \* what that call has sent on its result channel

pushVars == <<push, pushLog, pushOut>>

NoPush ==
  [pc |-> "idle", svc |-> "", msg |-> EmptyMessage, retries |-> 0, o |-> Transport,
   res |-> [dr |-> DeviceResponse("", FALSE, NoError, FALSE), ok |-> FALSE],
   at |-> 0, calls |-> 0]

InitPushIdle ==
  /\ push = NoPush
  /\ pushLog = <<>>
  /\ pushOut = <<>>

Event(ev, ms) == [ev |-> ev, ms |-> ms]

(* workRequest.Work calls Push / push for its message *)
PushBegin(svc, m) ==
  /\ push.pc \in {"idle", "returned"}
  /\ push.calls < MaxPushCalls
  /\ push' = [NoPush EXCEPT !.pc = "do", !.svc = svc, !.msg = m,
                            !.retries = transportRetries, !.calls = push.calls + 1]
  /\ pushLog' = <<>>
  /\ pushOut' = <<>>
  /\ UNCHANGED <<now, currentWait, waitUntil>>

(* if retries <= 0 { ... return dres, err } *)
RetriesExhaustedEarly(retries) == retries <= 1
RetriesExhausted(retries) == retries <= 0

(* One turn of `for not_sent`, up to the sleep, and what follows the loop. *)
APNSDo(a) ==
  /\ push.pc = "do"
  /\ push.svc = "apns"
  /\ IF a.kind = "transport"
     THEN /\ pushLog' = Append(pushLog, Event("fail", 0))
          /\ IF RetriesExhausted(push.retries)
             THEN push' = [push EXCEPT !.pc = "send", !.o = a, !.at = now,
                                       !.res = APNSPush(push.msg, a, now)]
             ELSE push' = [push EXCEPT !.pc = "sleep", !.retries = @ - 1]
     ELSE /\ pushLog' = Append(pushLog, Event("resp", 0))
          /\ push' = [push EXCEPT !.pc = "send", !.o = a, !.at = now,
                                  !.res = APNSPush(push.msg, a, now)]
  /\ UNCHANGED <<pushOut, now, currentWait, waitUntil>>

(* time.Sleep(500 * time.Millisecond) *)
APNSSleep ==
  /\ push.pc = "sleep"
  /\ pushLog' = Append(pushLog, Event("sleep", retrySleepMillis))
  /\ push' = [push EXCEPT !.pc = "do"]
  /\ UNCHANGED <<pushOut, now, currentWait, waitUntil>>

(* client.push: one POST, no retry *)
FCMDo(o) ==
  /\ push.pc = "do"
  /\ push.svc = "fcm"
  /\ currentWait' = FCMBackoff(currentWait, o)
  /\ waitUntil' = FCMWaitUntil(now, currentWait, waitUntil, o)
  /\ pushLog' = Append(pushLog,
                       Event(IF o.kind = "transport" THEN "fail" ELSE "resp", 0))
  /\ push' = [push EXCEPT !.pc = "send", !.o = o, !.at = now,
                          !.res = FCMPush(push.msg, o, now, waitUntil')]
  /\ UNCHANGED <<pushOut, now>>

(* wr.res <- dr; return err == nil *)
WorkSend ==
  /\ push.pc = "send"
  /\ pushOut' = Append(pushOut, push.res.dr)
  /\ push' = [push EXCEPT !.pc = "returned"]
  /\ UNCHANGED <<pushLog, now, currentWait, waitUntil>>

(* ======================================================================= *)
(*                    router/router.go : callback.Work                     *)
(* ======================================================================= *)

(* `try < 10` and `wait := 5` *)
maxTries == 10
initialWait == 5
(* callbacks handed to the callback pool *)
MaxCallbacks == 2

(* callback{url, response}: Work only marshals the response, which cannot  *)
(* fail for a goosh.Response. A URL that does not parse makes              *)
(* http.NewRequest fail.                                                   *)
CallbackURLs == {"http://cb", "::"}
URLValid(url) == url = "http://cb"
Callback(url, k) == [kind |-> "callback", id |-> <<url, k>>, msg |-> EmptyMessage]
Callbacks == {Callback(u, k) : u \in CallbackURLs, k \in 1..MaxCallbacks}

(* What cli.Do gives: an error, or a response with a status *)
CallbackAnswers == {Transport, Status(503, ""), Status(404, ""), Status(200, "")}
AnswerClass(a) ==
  IF a.kind = "transport" \/ a.status >= 500 THEN "fail"
  ELSE IF a.status >= 400 THEN "4xx" ELSE "2xx"

VARIABLES
  cbk,    \* per worker: the locals of callback.Work: pc, sent, try, wait
  cbLog   \* history, per callback number: answers, sleeps, sent, returned

cbVars == <<cbk, cbLog>>

CallbackLocals == [pc |-> "loop", sent |-> FALSE, try |-> 0, wait |-> initialWait]
NoCallbackLog == [answers |-> <<>>, sleeps |-> <<>>, sent |-> FALSE, tries |-> 0,
                  returned |-> FALSE, ret |-> FALSE]

InitCallbackIdle ==
  /\ cbk = <<>>
  /\ cbLog = <<>>

(* for sent == false && try < 10 *)
CallbackLoopsForever(sent, try) == ~sent
CallbackLoops(sent, try) == ~sent /\ try < maxTries

(* sent after cli.Do: an error or a status >= 500 leaves it false *)
CallbackSentOn2xx(a) == a.kind = "status" /\ a.status < 400
CallbackSent(a) == a.kind = "status" /\ a.status < 500

(* wait = wait * 2 *)
NextWaitLinear(w) == w + initialWait
NextWait(w) == w * 2

(* cb.Enqueue(callback{response: dr, url: callbackURL}) in pushHandler *)
CallbackEnqueue(item) ==
  /\ \A e \in enqLog : e.item.id[2] # item.id[2]
  /\ \A k \in 1..(item.id[2] - 1) : \E e \in enqLog : e.item.id[2] = k
  /\ EnqueueCall(item)
  /\ UNCHANGED cbVars

(* One turn of the loop up to `if sent { break }`. *)
CallbackAttempt(w) ==
  /\ Alive
  /\ wpc[w] = "working"
  /\ wwork[w].kind = "callback"
  /\ cbk[w].pc = "loop"
  /\ CallbackLoops(cbk[w].sent, cbk[w].try)
  /\ LET k == wwork[w].id[2] IN
       IF ~URLValid(wwork[w].id[1])
       THEN \* http.NewRequest fails: continue
            /\ cbk' = [cbk EXCEPT ![w].try = @ + 1]
            /\ cbLog' = [cbLog EXCEPT ![k].tries = @ + 1]
       ELSE \E a \in CallbackAnswers :
            /\ cbk' = [cbk EXCEPT ![w].try = @ + 1,
                                  ![w].sent = CallbackSent(a),
                                  ![w].pc = IF CallbackSent(a) THEN "break"
                                            ELSE "sleep"]
            /\ cbLog' = [cbLog EXCEPT ![k].tries = @ + 1,
                                      ![k].answers = Append(@, AnswerClass(a)),
                                      ![k].sent = CallbackSent(a)]
  /\ UNCHANGED poolVars

(* time.Sleep(time.Duration(wait) * time.Second); wait = wait * 2 *)
CallbackSleep(w) ==
  /\ Alive
  /\ wpc[w] = "working"
  /\ wwork[w].kind = "callback"
  /\ cbk[w].pc = "sleep"
  /\ cbk' = [cbk EXCEPT ![w].wait = NextWait(@), ![w].pc = "loop"]
  /\ cbLog' = [cbLog EXCEPT ![wwork[w].id[2]].sleeps = Append(@, cbk[w].wait)]
  /\ UNCHANGED poolVars

(* The loop is left, by break or by its condition: return true. The worker *)
(* goes back to publishing its channel.                                    *)
CallbackReturn(w) ==
  /\ Alive
  /\ wpc[w] = "working"
  /\ wwork[w].kind = "callback"
  /\ \/ cbk[w].pc = "break"
     \/ cbk[w].pc = "loop" /\ ~CallbackLoops(cbk[w].sent, cbk[w].try)
  /\ cbk' = [cbk EXCEPT ![w] = CallbackLocals]
  /\ cbLog' = [cbLog EXCEPT ![wwork[w].id[2]].returned = TRUE,
                            ![wwork[w].id[2]].ret = TRUE]
  /\ finished' = finished \cup {[item |-> wwork[w], ret |-> TRUE]}
  /\ running' = running \ {<<w, wwork[w]>>}
  /\ wpc' = [wpc EXCEPT ![w] = "publish"]
  /\ UNCHANGED <<n, closed, quit, WorkQueue, workQueueClosed, WorkerQueue,
                 workerQueueClosed, wait, wwork, wQuit, quitters, cpc, handoffs,
                 senders, stopPc, panicked>>
  /\ UNCHANGED <<stopCalls, enqLog, accepted, entered, taken, started, atStop>>

(* ======================================================================= *)
(*      the FCM service : client.push of several workers, step by step     *)
(* ======================================================================= *)

(* workers of the dispatch pool inside client.push at the same time *)
MaxPushers == 2
(* calls of client.push, all workers together *)
MaxBackoffPushes == 9

VARIABLES
  bw,           \* per worker: its position in client.push, the response, its read of currentWait
  backoffLock,  \* holder of the sync.Mutex backoffLock: 0 when free
  updates       \* history: assignments to currentWait, and calls begun

lockVars == <<bw, backoffLock, updates>>

Pushers == 1..MaxPushers

InitLockIdle ==
  /\ bw = <<>>
  /\ backoffLock = 0
  /\ updates = [writes |-> 0, calls |-> 0]

(* What the FCM backend answers: 200, 404, a transport failure, 503 with   *)
(* and without Retry-After.                                                *)
PusherAnswers ==
  {Transport, Status(200, ""), Status(404, ""), Status(503, ""),
   [Status(503, "") EXCEPT !.retryAfter = "7"]}

(* backoffLock.Lock() blocks while another goroutine holds the mutex *)
MutexNeverHeld(l) == FALSE
MutexHeld(l) == l # 0

(* client.push up to the branch on the status code; only a 5xx goes on to  *)
(* the backoff variables.                                                  *)
PusherBegin(w, o) ==
  /\ bw[w].pc = "idle"
  /\ updates.calls < MaxBackoffPushes
  /\ updates' = [updates EXCEPT !.calls = @ + 1]
  /\ bw' = [bw EXCEPT ![w] = [pc |-> IF o.kind = "status" /\ o.status >= 500
                                     THEN "lock" ELSE "idle",
                              o |-> o, cw |-> 0]]
  /\ UNCHANGED <<backoffLock, currentWait, fcmVars>>

(* backoffLock.Lock(); waitUntil = time.Now() *)
PusherLock(w) ==
  /\ bw[w].pc = "lock"
  /\ ~MutexHeld(backoffLock)
  /\ backoffLock' = w
  /\ waitUntil' = now
  /\ bw' = [bw EXCEPT ![w].pc = IF bw[w].o.retryAfter # "" THEN "read" ELSE "unlock"]
  /\ UNCHANGED <<updates, currentWait, now, bo, obs, raPc>>

(* the read of currentWait in `if currentWait == 0` and `currentWait*2` *)
PusherRead(w) ==
  /\ bw[w].pc = "read"
  /\ bw' = [bw EXCEPT ![w].cw = currentWait, ![w].pc = "write"]
  /\ UNCHANGED <<backoffLock, updates, currentWait, fcmVars>>

(* currentWait = ...; waitUntil = waitUntil.Add(currentWait seconds) *)
PusherWrite(w) ==
  /\ bw[w].pc = "write"
  /\ currentWait' = FCMBackoff(bw[w].cw, bw[w].o)
  /\ waitUntil' = waitUntil + currentWait'
  /\ updates' = [updates EXCEPT !.writes = @ + 1]
  /\ bw' = [bw EXCEPT ![w].pc = "unlock"]
  /\ UNCHANGED <<backoffLock, now, bo, obs, raPc>>

(* untilCopy := waitUntil; backoffLock.Unlock(); return *)
PusherUnlock(w) ==
  /\ bw[w].pc = "unlock"
  /\ backoffLock' = 0
  /\ bw' = [bw EXCEPT ![w].pc = "idle"]
  /\ UNCHANGED <<updates, currentWait, fcmVars>>

(* ======================================================================= *)
(*     router/router.go, cmd/server/server.go : pushHandler and main       *)
(* ======================================================================= *)

(* HTTP requests served by pushHandler *)
MaxRequests == 1

(* r.URL.Query().Get("callback") *)
HandlerURLs == {"", "http://cb"}

(* What arrives: a body that cannot be read, one that is not JSON, or a    *)
(* request with or without fcm_auth and apns_auth.                         *)
HTTPRequest(body, fcm, apns, url) ==
  [body |-> body, FCMAuth |-> fcm, APNSAuth |-> apns, url |-> url]
HTTPRequests ==
  {HTTPRequest("ok", f, a, u) :
     f \in {<<>>} \cup FCMAuths,
     a \in {<<>>, <<[Certificate |-> <<"C", "K">>, CertificatePassword |-> <<>>,
                    Sandbox |-> TRUE]>>},
     u \in HandlerURLs}
  \cup {HTTPRequest(b, <<>>, <<>>, "") : b \in {"unreadable", "malformed"}}

(* What fcm.Process or apns.Process hands back; Process itself is the      *)
(* subject of the dispatch specification.                                  *)
HandlerResponses(svc) ==
  {Response(FALSE, <<>>, 1, 0, "p", "", svc), Response(FALSE, <<>>, 0, 1, "p", "", svc)}

(* callback{response: dr, url: callbackURL} *)
HandlerCallbackNoResponse(url, k, dr) ==
  [kind |-> "callback", id |-> <<url, k>>, msg |-> EmptyMessage,
   response |-> ZeroResponse]
HandlerCallback(url, k, dr) ==
  [kind |-> "callback", id |-> <<url, k>>, msg |-> EmptyMessage, response |-> dr]

VARIABLES
  goingAway,   \* s.goingAway
  mainPc,      \* main: "serving", "stopping" after SIGINT, "exited"
  hreq         \* per HTTP request: the handler and the goroutine it spawns

handlerVars == <<goingAway, mainPc, hreq>>

(* pc: the handler; gpc: the goroutine of go func() { ... }(); status: the *)
(* status written; out: the Response encoded in the answer; proc: the      *)
(* service whose Process was invoked; dr: what Process returned;           *)
(* gaAtEntry: s.goingAway when the handler began.                          *)
NewHandler ==
  [pc |-> "new", gpc |-> "none", in |-> HTTPRequest("ok", <<>>, <<>>, ""),
   gaAtEntry |-> FALSE, status |-> 0, out |-> <<>>, proc |-> "", dr |-> <<>>]

InitHandlerIdle ==
  /\ goingAway = FALSE
  /\ mainPc = "idle"
  /\ hreq = <<>>

Serving == Alive /\ mainPc \in {"serving", "stopping"}

(* The handler reads s.goingAway while main writes it in another goroutine *)
(* with no synchronisation: during shutdown the read may still give false. *)
GoingAwayReads == IF mainPc = "stopping" THEN {goingAway, FALSE} ELSE {goingAway}

(* pushHandler from its entry to the branch on callbackURL *)
HandlerServe(k, in) ==
  /\ Serving
  /\ hreq[k].pc = "new"
  /\ \A j \in 1..(k - 1) : hreq[j].pc # "new"
  /\ \E seen \in GoingAwayReads :
       LET h == [hreq[k] EXCEPT !.in = in, !.gaAtEntry = goingAway] IN
         hreq' = [hreq EXCEPT ![k] =
           IF seen THEN [h EXCEPT !.status = 503, !.pc = "done"]
           ELSE IF in.body = "unreadable" THEN [h EXCEPT !.status = 500, !.pc = "done"]
           ELSE IF in.body = "malformed" THEN [h EXCEPT !.status = 400, !.pc = "done"]
           ELSE IF Platform(in) = "" THEN [h EXCEPT !.status = 422, !.pc = "done"]
           ELSE IF in.url # "" THEN [h EXCEPT !.pc = "respond", !.gpc = "call"]
           ELSE [h EXCEPT !.pc = "call"]]
  /\ UNCHANGED <<goingAway, mainPc, poolVars, cbVars>>

(* w.WriteHeader(http.StatusAccepted) *)
HandlerAccepted(k) ==
  /\ Serving
  /\ hreq[k].pc = "respond"
  /\ hreq' = [hreq EXCEPT ![k].status = 202, ![k].pc = "done"]
  /\ UNCHANGED <<goingAway, mainPc, poolVars, cbVars>>

(* dr, _ = procFunc(req): the call, by the handler or by its goroutine *)
HandlerInvoke(k) ==
  /\ Serving
  /\ \/ hreq[k].pc = "call" /\ hreq' = [hreq EXCEPT ![k].pc = "inProcess",
                                                  ![k].proc = Platform(hreq[k].in)]
     \/ hreq[k].gpc = "call" /\ hreq' = [hreq EXCEPT ![k].gpc = "inProcess",
                                                   ![k].proc = Platform(hreq[k].in)]
  /\ UNCHANGED <<goingAway, mainPc, poolVars, cbVars>>

(* procFunc returns *)
ProcessReturns(k) ==
  /\ Serving
  /\ \E dr \in HandlerResponses(hreq[k].proc) :
       \/ hreq[k].pc = "inProcess" /\ hreq' = [hreq EXCEPT ![k].pc = "encode",
                                                        ![k].dr = <<dr>>]
       \/ hreq[k].gpc = "inProcess" /\ hreq' = [hreq EXCEPT ![k].gpc = "enqueue",
                                                         ![k].dr = <<dr>>]
  /\ UNCHANGED <<goingAway, mainPc, poolVars, cbVars>>

(* json.NewEncoder(w).Encode(dr) *)
HandlerEncode(k) ==
  /\ Serving
  /\ hreq[k].pc = "encode"
  /\ hreq' = [hreq EXCEPT ![k].status = 200, ![k].out = hreq[k].dr, ![k].pc = "done"]
  /\ UNCHANGED <<goingAway, mainPc, poolVars, cbVars>>

(* cb.Enqueue(callback{response: dr, url: callbackURL}) *)
HandlerEnqueue(k) ==
  /\ Serving
  /\ hreq[k].gpc = "enqueue"
  /\ EnqueueCall(HandlerCallback(hreq[k].in.url, k, hreq[k].dr[1]))
  /\ hreq' = [hreq EXCEPT ![k].gpc = "done"]
  /\ UNCHANGED <<goingAway, mainPc, cbVars>>

(* <-sigint; s.goingAway = true; the goroutines of wg.Stop, cb.Stop and    *)
(* h.Shutdown are started.                                                 *)
Sigint ==
  /\ Alive
  /\ mainPc = "serving"
  /\ goingAway' = TRUE
  /\ mainPc' = "stopping"
  /\ UNCHANGED <<hreq, poolVars, cbVars>>

(* go func() { cb.Stop(); wait.Done() }() *)
CallbackStop ==
  /\ mainPc = "stopping"
  /\ stopCalls = 0
  /\ StopCall
  /\ UNCHANGED <<handlerVars, cbVars>>

(* wait.Wait() returns and main ends the process: ListenAndServe returns   *)
(* as soon as Shutdown is called, wg.Stop is taken to return, cb.Stop has  *)
(* returned.                                                               *)
MainExit ==
  /\ Alive
  /\ mainPc = "stopping"
  /\ stopPc = "returned"
  /\ mainPc' = "exited"
  /\ UNCHANGED <<goingAway, hreq, poolVars, cbVars>>

(* the goroutines of the callback pool *)
CallbackPoolStep ==
  /\ Serving
  /\ \/ /\ UNCHANGED cbVars
        /\ \/ \E w \in Workers : WorkerPublish(w)
           \/ \E w \in Workers : WorkerQuit(w)
           \/ \E w \in Workers : QuitterRun(w)
           \/ CoordRecv
           \/ CoordQuit
           \/ \E h \in handoffs : HandoffRecv(h)
           \/ \E h \in handoffs : HandoffSend(h)
           \/ \E item \in senders : SenderSend(item)
           \/ StopSetClosed
           \/ StopWait
           \/ StopCloseWorkQueue
           \/ StopCloseWorkerQueue
     \/ \E w \in Workers : CallbackAttempt(w)
     \/ \E w \in Workers : CallbackSleep(w)
     \/ \E w \in Workers : CallbackReturn(w)
  /\ UNCHANGED handlerVars

(* cb := factotum.NewWorkerGroup(1); cb.Start() *)
InitCallback ==
  /\ InitIterIdle
  /\ InitProcIdle
  /\ InitFcmIdle
  /\ InitPushIdle
  /\ InitHandlerIdle
  /\ InitLockIdle
  /\ NewWorkerGroup(1)
  /\ cbk = [w \in 1..1 |-> CallbackLocals]
  /\ cbLog = [k \in 1..MaxCallbacks |-> NoCallbackLog]

NextCallback ==
  /\ UNCHANGED <<iterVars, procVars, fcmVars, pushVars, handlerVars, lockVars>>
  /\ \/ /\ UNCHANGED cbVars
        /\ \/ \E w \in Workers : WorkerPublish(w)
           \/ WGStart
           \/ CoordRecv
           \/ \E h \in handoffs : HandoffRecv(h)
           \/ \E h \in handoffs : HandoffSend(h)
           \/ \E item \in senders : SenderSend(item)
     \/ \E item \in Callbacks : CallbackEnqueue(item)
     \/ \E w \in Workers : CallbackAttempt(w)
     \/ \E w \in Workers : CallbackSleep(w)
     \/ \E w \in Workers : CallbackReturn(w)

(* ------------------------- pool specification -------------------------- *)

InitPool ==
  /\ InitIterIdle
  /\ InitProcIdle
  /\ InitFcmIdle
  /\ InitPushIdle
  /\ InitHandlerIdle
  /\ InitLockIdle
  /\ InitCallbackIdle
  /\ \E size \in 1..MaxPool : NewWorkerGroup(size)

NextPool ==
  /\ UNCHANGED <<iterVars, procVars, fcmVars, cbVars, pushVars, handlerVars, lockVars>>
  /\ \/ \E w \in Workers : WorkerPublish(w)
     \/ \E w \in Workers : WorkerQuit(w)
     \/ \E w \in Workers : WorkerFinishTask(w)
     \/ \E w \in Workers : QuitterRun(w)
     \/ WGStart
     \/ CoordRecv
     \/ CoordQuit
     \/ \E h \in handoffs : HandoffRecv(h)
     \/ \E h \in handoffs : HandoffSend(h)
     \/ \E item \in Tasks : Enqueue(item)
     \/ \E item \in senders : SenderSend(item)
     \/ StopCall
     \/ StopSetClosed
     \/ StopWait
     \/ StopCloseWorkQueue
     \/ StopCloseWorkerQueue

(* ---------------------- dispatch specification ------------------------- *)

RECURSIVE SumTotals(_, _)
SumTotals(f, S) ==
  IF S = {} THEN 0
  ELSE LET c == CHOOSE x \in S : TRUE
       IN ExpectedTotal(f[c]) + SumTotals(f, S \ {c})

InitProc ==
  /\ InitIterIdle
  /\ InitFcmIdle
  /\ InitPushIdle
  /\ InitHandlerIdle
  /\ InitLockIdle
  /\ InitCallbackIdle
  /\ \E size \in 1..MaxPool : NewWorkerGroup(size)
  /\ \E rs \in [Calls -> ProcRequests] :
       /\ SumTotals(rs, Calls) <= MaxInFlight
       \* the two calls are interchangeable: the larger request is c1's
       /\ ExpectedTotal(rs["c1"]) >= ExpectedTotal(rs["c2"])
       /\ proc = [c \in Calls |-> NewCall(rs[c])]
  /\ results = [c \in Calls |-> <<>>]
  /\ clients = <<>>
  /\ lock = ""
  /\ currentWait = 0

NextProc ==
  /\ UNCHANGED <<iterVars, cbVars, pushVars, handlerVars, lockVars>>
  /\ \/ /\ UNCHANGED <<procVars, fcmVars>>
        /\ \/ \E w \in Workers : WorkerPublish(w)
           \/ WGStart
           \/ CoordRecv
           \/ \E h \in handoffs : HandoffRecv(h)
           \/ \E h \in handoffs : HandoffSend(h)
     \/ /\ UNCHANGED fcmVars
        /\ \/ \E c \in Calls : ProcessCall(c)
           \/ \E c \in Calls : GetClient(c)
           \/ \E c \in Calls : ProducerEmit(c)
           \/ \E c \in Calls : ProducerDone(c)
           \/ \E c \in Calls : Consume(c)
     \/ \E w \in Workers : WorkerFinishPush(w)

vars == <<iterVars, poolVars, procVars, fcmVars, cbVars, pushVars, handlerVars, lockVars>>

InitIterator ==
  /\ InitIter
  /\ InitPoolIdle
  /\ InitProcIdle
  /\ InitFcmIdle
  /\ InitPushIdle
  /\ InitHandlerIdle
  /\ InitLockIdle
  /\ InitCallbackIdle

NextIterator ==
  /\ UNCHANGED <<poolVars, procVars, fcmVars, cbVars, pushVars, handlerVars, lockVars>>
  /\ NextIter

SpecIter == InitIterator /\ [][NextIterator]_vars

SpecProc == InitProc /\ [][NextProc]_vars

SpecCallback == InitCallback /\ [][NextCallback]_vars


(* ---------------------- FCM backoff specification ---------------------- *)
(* What the FCM backend answers to the pushes made in this specification:  *)
(* a delivery, or a 503 without or with a Retry-After header.              *)
BackoffOutcomes ==
  {Status(200, "")}
  \cup {[Status(503, "") EXCEPT !.retryAfter = h] : h \in RetryAfterValues}

(* client.push called for one message. *)
BackoffPush(o) ==
  /\ bo.pushes < MaxPushes
  /\ currentWait' = FCMBackoff(currentWait, o)
  /\ waitUntil' = FCMWaitUntil(now, currentWait, waitUntil, o)
  /\ LET dr == FCMPush([Token |-> "t1", Payload |-> "p1"], o, now, waitUntil').dr IN
       bo' = [pushes |-> bo.pushes + 1,
              lastRetryAt |-> IF dr.Error = NoError THEN <<>> ELSE dr.Error[1].RetryAt,
              lastWait |-> currentWait,
              lastKind |-> o.kind,
              bare |-> bo.bare /\ o.status >= 500 /\ o.retryAfter = "",
              lastRA |-> o.retryAfter,
              lastAt |-> now,
              lastCode |-> IF dr.Error = NoError THEN 0 ELSE dr.Error[1].Code]
  /\ UNCHANGED <<now, obs, raPc>>

(* the clock *)
Tick ==
  /\ now < MaxTime
  /\ now' = now + 1
  /\ UNCHANGED <<currentWait, waitUntil, bo, obs, raPc>>

(* ShouldWait(): waitUntil.After(time.Now()) *)
ShouldWait == waitUntil > now

ShouldWaitCall ==
  /\ raPc = "idle"
  /\ obs' = [op |-> "ShouldWait", ret |-> IF ShouldWait THEN 1 ELSE 0, at |-> now,
             wu |-> waitUntil, pushes |-> bo.pushes]
  /\ UNCHANGED <<currentWait, waitUntil, now, bo, raPc>>

(* RetryAfter(): `if ShouldWait() { ... }`, the lock is released in between *)
RetryAfterCheck ==
  /\ raPc = "idle"
  /\ IF ShouldWait
     THEN /\ raPc' = "checked"
          /\ UNCHANGED obs
     ELSE /\ obs' = [op |-> "RetryAfter", ret |-> 0, at |-> now, wu |-> waitUntil,
                     pushes |-> bo.pushes]
          /\ UNCHANGED raPc
  /\ UNCHANGED <<currentWait, waitUntil, now, bo>>

(* `return int(time.Now().Sub(waitUntil))`: the Duration is a count of      *)
(* nanoseconds; ret is that int in units of 10^9.                           *)
RetryAfterRead ==
  /\ raPc = "checked"
  /\ raPc' = "idle"
  /\ obs' = [op |-> "RetryAfter", ret |-> now - waitUntil, at |-> now,
             wu |-> waitUntil, pushes |-> bo.pushes]
  /\ UNCHANGED <<currentWait, waitUntil, now, bo>>

InitBackoff ==
  /\ InitIterIdle
  /\ InitPoolIdle
  /\ InitProcIdle
  /\ InitFcmIdle
  /\ InitPushIdle
  /\ InitHandlerIdle
  /\ InitLockIdle
  /\ InitCallbackIdle

NextBackoff ==
  /\ UNCHANGED <<iterVars, poolVars, proc, results, clients, lock, cbVars, pushVars, handlerVars, lockVars>>
  /\ \/ \E o \in BackoffOutcomes : BackoffPush(o)
     \/ Tick
     \/ ShouldWaitCall
     \/ RetryAfterCheck
     \/ RetryAfterRead

SpecBackoff == InitBackoff /\ [][NextBackoff]_vars

(* ------------------------- push specification -------------------------- *)
InitPush ==
  /\ InitIterIdle
  /\ InitPoolIdle
  /\ InitProcIdle
  /\ InitFcmIdle
  /\ InitPushIdle
  /\ InitHandlerIdle
  /\ InitLockIdle
  /\ InitCallbackIdle

NextPush ==
  /\ UNCHANGED <<iterVars, poolVars, proc, results, clients, lock, bo, obs, raPc,
                 cbVars, handlerVars, lockVars>>
  /\ \/ \E svc \in {"apns", "fcm"}, m \in Messages : PushBegin(svc, m)
     \/ \E a \in APNSAnswers : APNSDo(a)
     \/ APNSSleep
     \/ \E o \in FCMAnswers : FCMDo(o)
     \/ WorkSend
     \/ Tick /\ UNCHANGED pushVars

SpecPush == InitPush /\ [][NextPush]_vars

(* ------------------------ handler specification ------------------------ *)
(* wg.Start(); cb.Start(); the server listens: cb := NewWorkerGroup(1) with *)
(* its coordinator running.                                                *)
InitHandler ==
  /\ InitIterIdle
  /\ InitProcIdle
  /\ InitFcmIdle
  /\ InitPushIdle
  /\ NewWorkerGroup(1)
  /\ cbk = [w \in 1..1 |-> CallbackLocals]
  /\ cbLog = [k \in 1..MaxRequests |-> NoCallbackLog]
  /\ goingAway = FALSE
  /\ mainPc = "starting"
  /\ hreq = [k \in 1..MaxRequests |-> NewHandler]
  /\ InitLockIdle

(* cb.Start(); h.ListenAndServe() *)
MainStart ==
  /\ mainPc = "starting"
  /\ WGStart
  /\ mainPc' = "serving"
  /\ UNCHANGED <<goingAway, hreq, cbVars>>

(* the iterator, dispatch and push state plays no part here *)
HandlerRest == UNCHANGED <<iterVars, procVars, fcmVars, pushVars, lockVars>>

NextHandler ==
  /\ HandlerRest
  /\ \/ MainStart
     \/ \E k \in 1..MaxRequests, in \in HTTPRequests : HandlerServe(k, in)
     \/ \E k \in 1..MaxRequests : HandlerAccepted(k)
     \/ \E k \in 1..MaxRequests : HandlerInvoke(k)
     \/ \E k \in 1..MaxRequests : ProcessReturns(k)
     \/ \E k \in 1..MaxRequests : HandlerEncode(k)
     \/ \E k \in 1..MaxRequests : HandlerEnqueue(k)
     \/ Sigint
     \/ CallbackStop
     \/ MainExit
     \/ CallbackPoolStep

SpecHandler == InitHandler /\ [][NextHandler]_vars

(* The Go scheduler runs every goroutine that can take a step; requests   *)
(* and SIGINT arrive when they will.                                       *)
HandlerFairness ==
  /\ WF_vars(HandlerRest /\ MainStart)
  /\ \A k \in 1..MaxRequests :
       /\ WF_vars(HandlerRest /\ HandlerAccepted(k))
       /\ WF_vars(HandlerRest /\ HandlerInvoke(k))
       /\ WF_vars(HandlerRest /\ ProcessReturns(k))
       /\ WF_vars(HandlerRest /\ HandlerEncode(k))
       /\ WF_vars(HandlerRest /\ HandlerEnqueue(k))
  /\ WF_vars(HandlerRest /\ CallbackStop)
  /\ WF_vars(HandlerRest /\ CallbackPoolStep)

SpecHandlerLive == InitHandler /\ [][NextHandler]_vars /\ HandlerFairness

(* --------------------- backoff mutex specification --------------------- *)
InitPushers ==
  /\ InitIterIdle
  /\ InitPoolIdle
  /\ InitProcIdle
  /\ InitFcmIdle
  /\ InitPushIdle
  /\ InitCallbackIdle
  /\ InitHandlerIdle
  /\ bw = [w \in Pushers |-> [pc |-> "idle", o |-> Transport, cw |-> 0]]
  /\ backoffLock = 0
  /\ updates = [writes |-> 0, calls |-> 0]

NextPushers ==
  /\ UNCHANGED <<iterVars, poolVars, proc, results, clients, lock, cbVars,
                 pushVars, goingAway, mainPc, hreq>>
  /\ \/ \E w \in Pushers, o \in PusherAnswers : PusherBegin(w, o)
     \/ \E w \in Pushers : PusherLock(w)
     \/ \E w \in Pushers : PusherRead(w)
     \/ \E w \in Pushers : PusherWrite(w)
     \/ \E w \in Pushers : PusherUnlock(w)
     \/ Tick /\ UNCHANGED lockVars

SpecPushers == InitPushers /\ [][NextPushers]_vars

(* --------------------- pool progress specification -------------------- *)
(* The pool is started and Stop is never called. *)
PoolRest ==
  UNCHANGED <<iterVars, procVars, fcmVars, cbVars, pushVars, handlerVars, lockVars>>

NextPoolRunning ==
  /\ PoolRest
  /\ \/ \E w \in Workers : WorkerPublish(w)
     \/ \E w \in Workers : WorkerFinishTask(w)
     \/ WGStart
     \/ CoordRecv
     \/ \E h \in handoffs : HandoffRecv(h)
     \/ \E h \in handoffs : HandoffSend(h)
     \/ \E item \in Tasks : Enqueue(item)
     \/ \E item \in senders : SenderSend(item)

(* Every goroutine that can take a step is scheduled; Work() returns; the  *)
(* callers of Enqueue come when they will.                                 *)
PoolFairness ==
  /\ \A w \in 1..MaxPool :
       /\ WF_vars(PoolRest /\ w \in Workers /\ WorkerPublish(w))
       /\ WF_vars(PoolRest /\ w \in Workers /\ WorkerFinishTask(w))
  /\ WF_vars(PoolRest /\ WGStart)
  /\ WF_vars(PoolRest /\ CoordRecv)
  /\ WF_vars(PoolRest /\ \E h \in handoffs : HandoffRecv(h))
  /\ WF_vars(PoolRest /\ \E h \in handoffs : HandoffSend(h))
  /\ \A item \in Tasks : WF_vars(PoolRest /\ SenderSend(item))

SpecPoolLive == InitPool /\ [][NextPoolRunning]_vars /\ PoolFairness

(* ------------------- dispatch progress specification ------------------ *)
(* The pool runs, every goroutine that can take a step is scheduled and    *)
(* every backend call returns.                                             *)
ProcRest == UNCHANGED <<iterVars, cbVars, pushVars, handlerVars, lockVars>>

ProcFairness ==
  /\ \A c \in Calls :
       /\ WF_vars(ProcRest /\ UNCHANGED fcmVars /\ ProcessCall(c))
       /\ WF_vars(ProcRest /\ UNCHANGED fcmVars /\ GetClient(c))
       /\ WF_vars(ProcRest /\ UNCHANGED fcmVars /\ ProducerEmit(c))
       /\ WF_vars(ProcRest /\ UNCHANGED fcmVars /\ ProducerDone(c))
       /\ WF_vars(ProcRest /\ UNCHANGED fcmVars /\ Consume(c))
  /\ \A w \in 1..MaxPool :
       /\ WF_vars(ProcRest /\ UNCHANGED <<procVars, fcmVars>> /\ w \in Workers
                  /\ WorkerPublish(w))
       /\ WF_vars(ProcRest /\ w \in Workers /\ WorkerFinishPush(w))
  /\ WF_vars(ProcRest /\ UNCHANGED <<procVars, fcmVars>> /\ WGStart)
  /\ WF_vars(ProcRest /\ UNCHANGED <<procVars, fcmVars>> /\ CoordRecv)
  /\ WF_vars(ProcRest /\ UNCHANGED <<procVars, fcmVars>>
             /\ \E h \in handoffs : HandoffRecv(h))
  /\ WF_vars(ProcRest /\ UNCHANGED <<procVars, fcmVars>>
             /\ \E h \in handoffs : HandoffSend(h))

SpecProcLive == InitProc /\ [][NextProc]_vars /\ ProcFairness

(* ------------------- client cache specification ------------------------ *)
(* Two APNS requests of one device each, with credentials that differ in   *)
(* the certificate, the password or the sandbox flag. Both certificates    *)
(* hold a CERTIFICATE and a PRIVATE KEY block, one has text after them;    *)
(* the password is empty or that same text.                                *)
CacheAuths ==
  {<<[Certificate |-> c, CertificatePassword |-> pw, Sandbox |-> sb]>> :
     c \in {<<"C", "K">>, <<"C", "K", "X">>},
     pw \in {<<>>, <<"text">>},
     sb \in BOOLEAN}

CacheRequests ==
  {NewRequest("p", "c", <<[Devices |-> <<"t1">>, Payload |-> "p1"]>>, <<>>, a, <<>>) :
     a \in CacheAuths}

InitCache ==
  /\ InitIterIdle
  /\ InitFcmIdle
  /\ InitPushIdle
  /\ InitHandlerIdle
  /\ InitLockIdle
  /\ InitCallbackIdle
  /\ NewWorkerGroup(1)
  /\ \E rs \in [Calls -> CacheRequests] : proc = [c \in Calls |-> NewCall(rs[c])]
  /\ results = [c \in Calls |-> <<>>]
  /\ clients = <<>>
  /\ lock = ""
  /\ currentWait = 0

SpecCache == InitCache /\ [][NextProc]_vars

SpecPool == InitPool /\ [][NextPool]_vars

(* ======================================================================= *)
(*                               properties                                *)
(* ======================================================================= *)

(* C2: a traversal by Next()/Value() makes exactly count() true steps, each
   emitting one pair; afterwards Next() is false, and by then every
   multiplexed device has been emitted once per position with the shared
   payload and every batched key once with its own payload, a token present
   in both sections being emitted once for each. *)
IteratorExhaustive ==
  /\ lastNext = "true" => steps <= ExpectedTotal(req) /\ Len(emitted) = steps
  /\ lastNext = "false" => steps > ExpectedTotal(req)
  /\ steps > ExpectedTotal(req) =>
       /\ lastNext = "false"
       /\ Len(emitted) = ExpectedTotal(req)
       /\ \A m \in Messages \cup {EmptyMessage} :
            CountIn(emitted, m) = ExpectedCount(req, m)

(* A finished traversal of a request that holds one token in both sections. *)
IteratorExhaustiveWitness ==
  /\ lastNext = "false"
  /\ steps = ExpectedTotal(req) + 1
  /\ \E t \in Tokens :
       /\ t \in Range(Devices(req))
       /\ t \in DOMAIN BatchedMap(req)
       /\ Cardinality({i \in DOMAIN emitted : emitted[i].Token = t}) = 2

(* C3: every Count() call, before or during iteration, returns
   len(multiplexed.devices) + len(batched) and leaves the Request as it was;
   total is accumulated once; every completed traversal, the ones after
   Reset() included, yields the same sequence of pairs. *)
IteratorIdempotentInit ==
  /\ \A c \in counts : c = ExpectedTotal(req)
  /\ ~countMoved
  /\ req.initialized => req.total = ExpectedTotal(req)
  /\ \A i, j \in DOMAIN passes : passes[i] = passes[j]

(* Count() was called before initialization and in the middle of a traversal,
   and two traversals of a request with two batched keys were completed. *)
IteratorIdempotentInitWitness ==
  /\ countedFresh
  /\ countedMid
  /\ Len(passes) = 2
  /\ Cardinality(DOMAIN BatchedMap(req)) = 2

Started == {p[1] : p \in started}

InPipeline(item) ==
  \/ item \in senders
  \/ item \in Range(WorkQueue)
  \/ \E h \in handoffs : h.work = item
  \/ item \in Started

ExpectedTokenCount(r, t) ==
  Cardinality({i \in DOMAIN Devices(r) : Devices(r)[i] = t})
  + (IF t \in DOMAIN BatchedMap(r) THEN 1 ELSE 0)

EmittedBy(c) == {i \in DOMAIN entered : entered[i].id[1] = c}

(* C1: when Process returns for a request with count() > 0 whose client was
   acquired, devices holds one DeviceResponse per pair the iterator emitted:
   per token as many entries as the request holds that token, count() in
   all, success + failure = len(devices), success = the delivered entries. *)
CountConservation ==
  \A c \in DOMAIN proc :
    LET r == proc[c].req
        d == proc[c].resp.Devices
    IN proc[c].pc = "done" /\ ExpectedTotal(r) > 0 /\ proc[c].err = "" =>
         /\ Len(d) = ExpectedTotal(r)
         /\ Cardinality(EmittedBy(c)) = Len(d)
         /\ \A t \in Tokens :
              /\ Cardinality({i \in DOMAIN d : d[i].Identifier = t})
                   = ExpectedTokenCount(r, t)
              /\ Cardinality({i \in EmittedBy(c) : entered[i].msg.Token = t})
                   = ExpectedTokenCount(r, t)
         /\ proc[c].resp.Success + proc[c].resp.Failure = Len(d)
         /\ proc[c].resp.Success = Cardinality({i \in DOMAIN d : d[i].Delivered})

(* Process returned for a request holding one token in both sections, one of
   the two pushes delivered and the other not. *)
CountConservationWitness ==
  \E c \in DOMAIN proc :
    /\ proc[c].pc = "done"
    /\ proc[c].err = ""
    /\ Len(proc[c].resp.Devices) = 2
    /\ \A i \in 1..2 : proc[c].resp.Devices[i].Identifier = "t1"
    /\ "t1" \in DOMAIN BatchedMap(proc[c].req)
    /\ proc[c].resp.Success = 1
    /\ proc[c].resp.Failure = 1

(* C10: for a request with no devices and no batched entries Process returns
   without acquiring a client or sending a work item, and the Response has no
   devices, success = 0, failure = 0, no error and the request's push_id. *)
EmptyRequestResponse ==
  \A c \in DOMAIN proc :
    proc[c].pc = "done" /\ ExpectedTotal(proc[c].req) = 0 =>
      /\ proc[c].resp.Devices = <<>>
      /\ proc[c].resp.Success = 0
      /\ proc[c].resp.Failure = 0
      /\ proc[c].resp.Error = NoError
      /\ proc[c].err = ""
      /\ EmittedBy(c) = {}
      /\ lock # c
      /\ proc[c].resp.PushID = proc[c].req.PushID

(* C4: an Enqueue call made after Stop has returned gives false, and an item
   that was refused never reaches the queue, a hand-off or a worker; a call
   made while wg.closed is false gives true and leaves the item with a
   detached sender (or already in the queue), whatever the queue's length. *)
EnqueueContract ==
  /\ \A e \in enqLog :
       /\ e.phase = "stopped" => ~e.ret
       /\ e.phase = "open" => e.ret
       /\ ~e.ret => ~InPipeline(e.item) /\ e.item \notin Range(entered)
       /\ e.ret => e.item \in senders \/ e.item \in Range(entered)
  /\ \A item \in senders : \E e \in enqLog : e.item = item /\ e.ret

(* Enqueue returned true at a moment when the work queue was full. *)
EnqueueContractWitness ==
  \E e \in enqLog : e.ret /\ e.full /\ e.item \in senders

(* C5: once Stop is past wg.wait.Wait() every worker has exited, so no item
   is executing and every item that was executing when Stop was called has
   finished; the work queue is closed only when all workers have exited; a
   second call of Stop returns at once and closes no channel again. *)
StopWaitsForWorkers ==
  /\ stopPc \in {"closeWork", "closeWorker", "returned"} =>
       /\ \A w \in Workers : wpc[w] = "done"
       /\ running = {}
       /\ atStop.running \subseteq {f.item : f \in finished}
  /\ workQueueClosed => \A w \in Workers : wpc[w] = "done"
  /\ panicked # "close of closed channel"
  /\ stopCalls >= 2 => stopPc = "returned" /\ workQueueClosed /\ workerQueueClosed

(* Stop was called while an item was executing and has returned twice. *)
StopWaitsForWorkersWitness ==
  /\ stopPc = "returned"
  /\ stopCalls = 2
  /\ atStop.running # {}

(* C6: once Stop has returned, wg.closed is set, all workers have exited, the
   work queue is closed and empty, and every item accepted before Stop was
   called has been executed. *)
ShutdownQuiescence ==
  stopPc = "returned" =>
    /\ closed
    /\ \A w \in Workers : wpc[w] = "done"
    /\ workQueueClosed
    /\ WorkQueue = <<>>
    /\ \A item \in atStop.accepted :
         /\ item \in {f.item : f \in finished}
         /\ item \notin senders
         /\ \A h \in handoffs : h.work # item

(* C7 as claimed: of two accepted items, the one whose Enqueue returned first
   has reached a worker whenever the other one has. *)
DispatchInEnqueueOrder ==
  \A i, j \in DOMAIN accepted :
    i < j /\ accepted[j] \in Started => accepted[i] \in Started

(* C7 amended: the coordinator receives items in the order in which they
   entered the work queue. *)
CoordinatorFIFO == IsPrefix(taken, entered)

(* Two items entered the queue against the order of their Enqueue calls and
   the coordinator has received both. *)
CoordinatorFIFOWitness ==
  /\ Len(taken) >= 2
  /\ Len(accepted) >= 2
  /\ entered[1] = accepted[2]
  /\ entered[2] = accepted[1]

(* C8: at most n items are inside Work() at any time, and no worker has more
   than one. *)
BoundedConcurrency ==
  /\ Cardinality(running) <= n
  /\ \A w \in Workers : Cardinality({p \in running : p[1] = w}) <= 1
  /\ \A p \in running : wpc[p[1]] = "working" /\ wwork[p[1]] = p[2]

(* Every worker of a pool of more than one is executing an item. *)
BoundedConcurrencyWitness ==
  /\ n = MaxPool
  /\ Cardinality(running) = n

(* C9: no item is received by a worker twice or by two workers, and an item
   whose Work() has returned is nowhere in the pool again, whatever it
   returned. *)
ExecutedAtMostOnce ==
  /\ \A p \in started : p[2] = 1
  /\ \A p, q \in running : p[2] = q[2] => p = q
  /\ \A f \in finished :
       /\ f.item \notin senders
       /\ f.item \notin Range(WorkQueue)
       /\ \A h \in handoffs : h.work # f.item
       /\ \A p \in running : p[2] # f.item

(* An item whose Work() returned false is gone and the pool is idle. *)
ExecutedAtMostOnceWitness ==
  /\ \E f \in finished : ~f.ret
  /\ \A w \in Workers : wpc[w] = "select"
  /\ WorkQueue = <<>>
  /\ handoffs = {}
  /\ senders = {}
  /\ Cardinality(started) >= 2

(* C11: when the APNS client cannot be acquired (certificate not base64, PEM
   without a certificate or without a private key) Process returns a Response
   with failed = true and the cause in error, has enqueued no work item and
   has added no entry to the client cache. *)
ClientFailureResponse ==
  \A c \in DOMAIN proc :
    proc[c].pc = "done" /\ proc[c].err # "" =>
      /\ proc[c].resp.Failed
      /\ proc[c].resp.Error # NoError
      /\ EmittedBy(c) = {}
      /\ ~proc[c].built

(* C12: the Response of a dispatched request with count() > 0 carries the
   request's push_id and custom_id and the name of the service, "apns" or
   "fcm". *)
ResponseEchoesRequest ==
  \A c \in DOMAIN proc :
    proc[c].pc = "done" /\ proc[c].err = "" /\ ExpectedTotal(proc[c].req) > 0 =>
      /\ proc[c].resp.PushID = proc[c].req.PushID
      /\ proc[c].resp.CustomID = proc[c].req.CustomID
      /\ proc[c].resp.Service = proc[c].svc

(* The DeviceResponses the workers produced for call c that equal dr *)
ProducedFor(c, dr) == {f \in finished : f.item.id[1] = c /\ f.dr = dr}

(* C13: whatever the per-device outcomes are, the Response of a dispatched
   request has failed = false and no request-level error, and devices holds
   exactly the DeviceResponses the pushes produced. *)
PerDeviceFailuresContained ==
  \A c \in DOMAIN proc :
    proc[c].pc = "done" /\ proc[c].err = "" /\ ExpectedTotal(proc[c].req) > 0 =>
      /\ ~proc[c].resp.Failed
      /\ proc[c].resp.Error = NoError
      /\ \A f \in finished :
           f.item.id[1] = c =>
             CountIn(proc[c].resp.Devices, f.dr) = Cardinality(ProducedFor(c, f.dr))
      /\ \A i \in DOMAIN proc[c].resp.Devices :
           ProducedFor(c, proc[c].resp.Devices[i]) # {}

(* Process returned for a request of two devices that both failed, one by a
   transport failure and one by a provider status of 500 or more. *)
PerDeviceFailuresContainedWitness ==
  \E c \in DOMAIN proc :
    /\ proc[c].pc = "done"
    /\ proc[c].err = ""
    /\ proc[c].resp.Failure = 2
    /\ proc[c].resp.Success = 0
    /\ \E i, j \in DOMAIN proc[c].resp.Devices :
         /\ proc[c].resp.Devices[i].Error[1].Description
              \in {"couldn't make request to APNS", "couldn't connect to FCM"}
         /\ proc[c].resp.Devices[j].Error[1].Code = 503

(* C14: every DeviceResponse a push produces has an error exactly when it is
   not delivered, and its identifier is the token of the message pushed. *)
DeviceResponseWellFormed ==
  \A f \in finished :
    /\ ~f.dr.Delivered => f.dr.Error # NoError
    /\ f.dr.Delivered => f.dr.Error = NoError
    /\ f.dr.Identifier = f.item.msg.Token

(* The APNS service has produced a delivered response and the FCM service an
   undelivered one out of a 200 whose result carries an error. *)
DeviceResponseWellFormedWitness ==
  \E f, g \in finished :
    /\ proc[f.item.id[1]].svc = "apns"
    /\ proc[g.item.id[1]].svc = "fcm"
    /\ f.dr.Delivered
    /\ ~g.dr.Delivered
    /\ g.dr.Error[1].Description = "NotRegistered"

(* (certificate, password, sandbox) of the request of call c *)
Credentials(c) ==
  <<proc[c].req.APNSAuth[1].Certificate,
    proc[c].req.APNSAuth[1].CertificatePassword,
    proc[c].req.APNSAuth[1].Sandbox>>

(* C15: two Process calls with the same (certificate, password, sandbox)
   obtain the same client and the second constructs nothing; two calls that
   differ in any of the three obtain distinct clients, so no two different
   triples share a cache entry. *)
CacheDeterminism ==
  \A c, d \in DOMAIN proc :
    c # d /\ proc[c].cli # NoClient /\ proc[d].cli # NoClient =>
      IF Credentials(c) = Credentials(d)
      THEN proc[c].cli = proc[d].cli /\ ~(proc[c].built /\ proc[d].built)
      ELSE proc[c].cli # proc[d].cli

(* current_wait after k consecutive escalations: 5, 10, 20, ..., capped *)
RECURSIVE Ladder(_)
Ladder(k) == IF k <= 1 THEN initialBackoff ELSE minInt(2 * Ladder(k - 1), maxBackoff)

(* C16: starting from current_wait = 0, after k consecutive 5xx responses
   that carry no Retry-After header current_wait is the k-th value of
   5, 10, 20, 40, 80, 160, 300, 300. *)
BackoffEscalation ==
  bo.bare /\ bo.pushes > 0 => currentWait = Ladder(bo.pushes)

(* The int RetryAfter() returned, ret * 10^9, is at least k (0 <= k < 10^9) *)
ReturnedAtLeast(ret, k) == ret > 0 \/ (ret = 0 /\ k = 0)

(* C17: right after a 5xx response with Retry-After: R, should_wait() is true
   and retry_after() is at least R + current_wait; should_wait() is true
   exactly when wait_until > now; retry_after() is 0 when should_wait() is
   false. *)
RetryAfterContract ==
  /\ obs.op = "ShouldWait" => (obs.ret = 1) = (obs.wu > obs.at)
  /\ obs.op = "RetryAfter" /\ ~(obs.wu > obs.at) => obs.ret = 0
  /\ obs.pushes = bo.pushes /\ obs.at = bo.lastAt /\ bo.lastCode >= 500
       /\ Atoi(bo.lastRA).ok =>
         /\ obs.op = "ShouldWait" => obs.ret = 1
         /\ obs.op = "RetryAfter" =>
              ReturnedAtLeast(obs.ret, Atoi(bo.lastRA).val + currentWait)

(* The sleeps after failed attempts 1..k: 5, 10, 20, ... seconds *)
RECURSIVE SleepLadder(_)
SleepLadder(k) ==
  IF k <= 0 THEN <<>>
  ELSE Append(SleepLadder(k - 1),
              IF k = 1 THEN initialWait ELSE 2 * SleepLadder(k - 1)[k - 1])

(* C18: when the callback URL fails (transport error or status >= 500) on
   attempts 1..k-1 and answers with a status below 500 on attempt k, the item
   makes exactly k attempts, has slept 5, 10, 20, ... seconds after the failed
   attempts and not after attempt k, and ends delivered. *)
CallbackRetryLadder ==
  \A i \in DOMAIN cbLog :
    LET e == cbLog[i] IN
      /\ \A k \in DOMAIN e.answers :
           e.answers[k] # "fail" =>
             /\ k <= maxTries
             /\ Len(e.answers) = k
             /\ e.tries = k
             /\ e.sleeps = SleepLadder(k - 1)
             /\ e.sent
      /\ \A k \in DOMAIN e.answers :
           e.answers[k] = "fail" /\ k < Len(e.answers) =>
             /\ Len(e.sleeps) >= k
             /\ e.sleeps[k] = SleepLadder(k)[k]

(* A callback has returned after three failed attempts and a fourth answered
   with a 2xx, having slept 5, 10 and 20 seconds. *)
CallbackRetryLadderWitness ==
  \E i \in DOMAIN cbLog :
    /\ cbLog[i].returned
    /\ cbLog[i].answers = <<"fail", "fail", "fail", "2xx">>
    /\ cbLog[i].sleeps = <<5, 10, 20>>
    /\ cbLog[i].sent

(* C19: an attempt answered with a status in [400, 500) counts as delivered:
   no attempt and no sleep follows it. *)
Callback4xxStops ==
  \A i \in DOMAIN cbLog :
    \A k \in DOMAIN cbLog[i].answers :
      cbLog[i].answers[k] = "4xx" =>
        /\ cbLog[i].sent
        /\ Len(cbLog[i].answers) = k
        /\ Len(cbLog[i].sleeps) = k - 1
        /\ \A w \in Workers :
             wpc[w] = "working" /\ wwork[w].id[2] = i => cbk[w].pc = "break"

(* A callback whose first POST was answered 404 has returned after that one
   attempt, without a sleep. *)
Callback4xxStopsWitness ==
  \E i \in DOMAIN cbLog :
    /\ cbLog[i].returned
    /\ cbLog[i].answers = <<"4xx">>
    /\ cbLog[i].tries = 1
    /\ cbLog[i].sleeps = <<>>

(* C20: a callback makes at most 10 attempts; when all 10 fail, Work returns
   (true, without a panic), the callback is nowhere in the pool any more and
   is not enqueued again, and the worker goes on to the next item. *)
CallbackAbandoned ==
  \A i \in DOMAIN cbLog :
    LET e == cbLog[i] IN
      /\ e.tries <= maxTries
      /\ Len(e.answers) <= maxTries
      /\ e.returned /\ ~e.sent =>
           /\ e.tries = maxTries
           /\ e.ret
           /\ Alive
           /\ \A item \in Callbacks :
                item.id[2] = i =>
                  /\ item \notin senders
                  /\ item \notin Range(WorkQueue)
                  /\ \A h \in handoffs : h.work # item
                  /\ Cardinality({p \in started : p[1] = item}) <= 1
                  /\ CountIn(entered, item) <= 1
           /\ \A w \in Workers :
                wpc[w] = "working" => wwork[w].id[2] # i

(* The first callback has returned after 10 failed POSTs and the worker has
   taken up the second one. *)
CallbackAbandonedWitness ==
  /\ cbLog[1].returned
  /\ Len(cbLog[1].answers) = maxTries
  /\ ~cbLog[1].sent
  /\ \E w \in Workers : wpc[w] = "working" /\ wwork[w].id[2] = 2

(* C24: the i-th pair a traversal emits is (multiplexed.devices[i],
   multiplexed.payload) for i below multi_len, and (batched_keys[i -
   multi_len], batched[that key]) from there on; Value() with the cursor at or
   past total gives the empty Message. *)
IterationOrder ==
  /\ \A i \in DOMAIN emitted :
       IF i <= Len(Devices(req))
       THEN emitted[i] = [Token |-> Devices(req)[i],
                          Payload |-> req.Multiplexed[1].Payload]
       ELSE emitted[i] =
              [Token |-> req.batchedKeys[i - Len(Devices(req))],
               Payload |-> BatchedMap(req)[req.batchedKeys[i - Len(Devices(req))]]]
  /\ lastValueAt # <<>> /\ lastValueAt[1] >= lastValueAt[2] =>
       lastValue = EmptyMessage

(* A traversal over two different multiplexed devices and a batched entry is
   complete, and Value() was then called with the cursor at total. *)
IterationOrderWitness ==
  /\ Len(emitted) = 3
  /\ emitted[1].Token # emitted[2].Token
  /\ Len(Devices(req)) = 2
  /\ lastNext = "false"
  /\ lastValueAt = <<3, 3>>

(* C29: the client-cache mutex is released on every exit path of client
   acquisition: it is never held by a Process call that has left getClient,
   so a later call with valid credentials can acquire its client. *)
ClientLockReleased ==
  \A c \in DOMAIN proc : lock = c => proc[c].pc = "getClient"

(* C30: no task sends on the work queue or on the worker queue after Stop has
   closed it. *)
NoSendOnClosedChannel == panicked # "send on closed channel"

(* The HTTP attempts of the push in progress: the entries of pushLog that
   are not sleeps *)
Attempts == {i \in DOMAIN pushLog : pushLog[i].ev # "sleep"}
PushEnded == push.pc \in {"send", "returned"}

(* C25: an APNS push makes at most 6 HTTP attempts, stops at the first one
   that gets a response, and sleeps 500 ms between consecutive attempts only;
   when all attempts fail it yields an undelivered DeviceResponse with error
   502 "couldn't make request to APNS", should_retry and retry_at = now +
   300 s, and that result is still sent on the result channel. *)
APNSTransportRetry ==
  push.svc = "apns" =>
    /\ Cardinality(Attempts) <= transportRetries + 1
    /\ \A i \in DOMAIN pushLog :
         /\ pushLog[i].ev = "resp" => i = Len(pushLog)
         /\ pushLog[i].ev = "sleep" <=> i % 2 = 0
         /\ pushLog[i].ev = "sleep" => pushLog[i].ms = 500
    /\ PushEnded => pushLog[Len(pushLog)].ev # "sleep"
    /\ PushEnded /\ (\A i \in DOMAIN pushLog : pushLog[i].ev # "resp") =>
         /\ Cardinality(Attempts) = 6
         /\ push.res.dr =
              DeviceResponse(push.msg.Token, FALSE,
                             ErrAt(502, "couldn't make request to APNS", TRUE,
                                   push.at + 300), FALSE)
         /\ push.pc = "returned" => pushOut = <<push.res.dr>>

(* An APNS push has returned after six failed attempts and its 502 result is
   on the result channel. *)
APNSTransportRetryWitness ==
  /\ push.svc = "apns"
  /\ push.pc = "returned"
  /\ Len(pushLog) = 11
  /\ \A i \in Attempts : pushLog[i].ev = "fail"
  /\ Len(pushOut) = 1
  /\ pushOut[1].Error[1].Code = 502

(* C26: an APNS response with status 200 yields delivered with no error; any
   other status yields undelivered with error.code = status and
   error.description = the reason in the body; error.should_retry is true,
   with retry_at = now + 300 s, exactly when status >= 500. *)
APNSClassification ==
  push.svc = "apns" /\ PushEnded /\ push.o.kind = "status" =>
    LET dr == push.res.dr IN
      IF push.o.status = 200
      THEN dr.Delivered /\ dr.Error = NoError
      ELSE /\ ~dr.Delivered
           /\ dr.Error # NoError
           /\ dr.Error[1].Code = push.o.status
           /\ dr.Error[1].Description = APNSReason(push.o.body).reason
           /\ dr.Error[1].ShouldRetry = (push.o.status >= 500)
           /\ push.o.status >= 500 => dr.Error[1].RetryAt = <<push.at + 300>>

(* C27: the FCM push classifies its outcome: 200 is delivered iff
   results[0].error is empty, else that error is the description; 401 and 400
   give their fixed texts; 5xx gives "FCM error" with should_retry; any other
   status gives "Unknown response" without should_retry; a transport failure
   gives code 500 with should_retry on the error and on the DeviceResponse;
   every branch produces exactly one DeviceResponse. *)
FCMClassification ==
  push.svc = "fcm" /\ PushEnded =>
    LET dr == push.res.dr
        o == push.o
    IN /\ dr.Identifier = push.msg.Token
       /\ push.pc = "returned" => pushOut = <<dr>>
       /\ push.pc = "send" => pushOut = <<>>
       /\ IF o.kind = "transport"
          THEN /\ ~dr.Delivered /\ dr.ShouldRetry
               /\ dr.Error[1].Code = 500
               /\ dr.Error[1].ShouldRetry
          ELSE IF o.status = 200
          THEN /\ dr.Delivered = (o.body = "")
               /\ o.body = "" => dr.Error = NoError
               /\ o.body # "" => dr.Error[1].Description = o.body
          ELSE IF o.status = 401
          THEN /\ ~dr.Delivered
               /\ dr.Error[1].Code = 401
               /\ dr.Error[1].Description = "wrong api key"
          ELSE IF o.status = 400
          THEN /\ ~dr.Delivered
               /\ dr.Error[1].Code = 400
               /\ dr.Error[1].Description = "invalid payload, check JSON"
          ELSE IF o.status >= 500
          THEN /\ ~dr.Delivered
               /\ dr.Error[1].Code = o.status
               /\ dr.Error[1].Description = "FCM error"
               /\ dr.Error[1].ShouldRetry
          ELSE /\ ~dr.Delivered
               /\ dr.Error[1].Code = o.status
               /\ dr.Error[1].Description = "Unknown response"
               /\ ~dr.Error[1].ShouldRetry

(* An FCM push answered 200 with an error in results[0] has returned, after
   an FCM push answered with a status the service does not know. *)
FCMClassificationWitness ==
  /\ push.svc = "fcm"
  /\ push.pc = "returned"
  /\ push.calls = 2
  /\ push.o = Status(200, "NotRegistered")
  /\ ~pushOut[1].Delivered
  /\ pushOut[1].Error[1].Description = "NotRegistered"

(* C28: on every 5xx response current_wait becomes 5 if it was 0 and
   min(2 * current_wait, 300) otherwise, wait_until becomes now + R +
   current_wait with R the Retry-After seconds (0 without the header), and the
   error's retry_at is that wait_until. *)
BackoffUpdate ==
  bo.pushes > 0 /\ bo.lastKind = "status" /\ bo.lastCode >= 500 =>
    /\ currentWait = IF bo.lastWait = 0 THEN 5 ELSE minInt(2 * bo.lastWait, 300)
    /\ waitUntil = bo.lastAt + Atoi(bo.lastRA).val + currentWait
    /\ bo.lastRetryAt = <<waitUntil>>

(* The calls of cb.Enqueue made for request k *)
Submitted(k) == {e \in enqLog : e.item.id[2] = k}

(* C21: a request with a callback URL and a resolved platform is answered
   202 without waiting for Process; exactly one callback item is submitted
   to the callback pool, only after Process has returned, and it carries the
   Response Process returned and the caller's URL; a synchronous request
   never submits a callback item. *)
AsyncOrdering ==
  \A k \in DOMAIN hreq :
    LET r == hreq[k] IN
      /\ r.in.url = "" => Submitted(k) = {}
      /\ r.status = 202 => r.in.url # "" /\ Platform(r.in) # ""
      /\ r.gpc # "none" /\ r.pc = "done" => r.status = 202
      /\ r.pc = "respond" /\ Serving => ENABLED HandlerAccepted(k)
      /\ Cardinality(Submitted(k)) <= 1
      /\ \A e \in Submitted(k) :
           /\ r.dr # <<>>
           /\ e.item.response = r.dr[1]
           /\ e.item.id[1] = r.in.url
      /\ r.gpc = "done" => Cardinality(Submitted(k)) = 1

(* A request was answered 202 and its goroutine has handed the failure
   Response of Process to the callback pool, which took it. *)
AsyncOrderingWitness ==
  \E k \in DOMAIN hreq :
    /\ hreq[k].status = 202
    /\ hreq[k].gpc = "done"
    /\ \E e \in Submitted(k) : e.ret /\ e.item.response.Failure = 1

(* C22: every request answered 202 Accepted eventually leads to at least one
   POST of its Response to the callback URL, also when shutdown begins while
   the request is being processed. *)
AtLeastOnceCallback ==
  \A k \in 1..MaxRequests :
    (hreq[k].status = 202) ~> (cbLog[k].answers # <<>>)

(* C23: a request goes to the FCM service iff fcm_auth is present and
   apns_auth absent, to the APNS service iff apns_auth is present and
   fcm_auth absent; with both or neither no Process is invoked, no callback
   is enqueued and the answer is 422; while going_away is set the answer is
   503 and nothing is invoked. *)
PlatformResolution ==
  \A k \in DOMAIN hreq :
    LET r == hreq[k]
        fcm == r.in.FCMAuth # <<>>
        apns == r.in.APNSAuth # <<>>
        served == r.pc = "done" /\ r.gpc \in {"none", "done"}
    IN /\ r.proc = "fcm" => fcm /\ ~apns
       /\ r.proc = "apns" => apns /\ ~fcm
       /\ served /\ ~r.gaAtEntry /\ r.in.body = "ok" =>
            /\ fcm /\ ~apns => r.proc = "fcm"
            /\ apns /\ ~fcm => r.proc = "apns"
            /\ fcm = apns => r.proc = "" /\ r.status = 422 /\ Submitted(k) = {}
       /\ r.pc # "new" /\ r.gaAtEntry =>
            r.status = 503 /\ r.proc = "" /\ r.pc = "done" /\ Submitted(k) = {}

(* currentWait after k assignments: 5, 10, 20, 40, 80, 160, 300, 300, ... *)
RECURSIVE WaitAfter(_)
WaitAfter(k) ==
  IF k = 0 THEN 0
  ELSE IF k = 1 THEN initialBackoff
  ELSE minInt(2 * WaitAfter(k - 1), maxBackoff)

(* C33: the FCM current_wait is always one of 0, 5, 10, 20, 40, 80, 160,
   300 and no step lowers it, whatever the outcome of a push; the updates of
   several workers are serialized by the backoff mutex, so the value is the
   one that as many doublings as there were updates give. *)
BackoffMonotone ==
  /\ [](/\ currentWait \in {0, 5, 10, 20, 40, 80, 160, 300}
        /\ currentWait = WaitAfter(updates.writes)
        /\ \A w \in DOMAIN bw : bw[w].pc \in {"read", "write", "unlock"} =>
             backoffLock = w)
  /\ [][currentWait' >= currentWait]_vars

(* Eight updates have taken current_wait to 300 and kept it there; the
   worker that made the last one still holds the mutex and the other worker
   waits for it. *)
BackoffMonotoneWitness ==
  /\ currentWait = 300
  /\ updates.writes = 8
  /\ \E w, v \in DOMAIN bw :
       /\ bw[w].pc = "unlock"
       /\ bw[v].pc = "lock"

(* C31: with the pool started and never stopped and every Work() returning,
   every item for which Enqueue returned true is eventually executed by a
   worker, also when there are more items than workers and than places in
   the work queue. *)
PoolProgress ==
  \A item \in Tasks :
    (item \in Range(accepted)) ~> (\E f \in finished : f.item = item)

(* A pool of one worker, whose queue holds two items, was handed a third
   item while the queue was full, and all three have been executed. *)
PoolProgressWitness ==
  /\ n = 1
  /\ Len(accepted) = 3
  /\ \E e \in enqLog : e.full /\ e.ret
  /\ \A item \in Range(accepted) : \E f \in finished : f.item = item

(* C32: with the pool running and every backend call returning, all
   concurrent Process calls eventually return, also when a request has more
   devices than the result channel, the pool or the work queue can hold. *)
ProcessTerminates ==
  \A c \in Calls : <>(proc[c].pc = "done")

====
